---- MODULE Spec2Model ----
(***************************************************************************)
(* Resilience layer of the inference service (src/app/resilience.py):      *)
(* the CircuitBreaker state machine under concurrent callers, and the      *)
(* RequestQueue with its worker tasks, as asyncio runs them: a step of the *)
(* model is what one task does between two suspension points.              *)
(***************************************************************************)
EXTENDS Integers, Sequences, FiniteSets, TLC

(***************************************************************************)
(* Bounds of the model.                                                    *)
(***************************************************************************)
NumCallers == 2
MaxCalls == 4
MaxTime == 2
MaxFailureThreshold == 2
MaxSuccessThreshold == 2
MaxRecoveryTimeout == 1
MaxCallTimeout == 1
MaxSize == 2
MaxWorkers == 2
MaxPuts == 3
MaxPriority == 1
ExtraCalls == 2
MaxOtherCalls == 1
MaxAdvances == 1
MaxChecks == 3
MaxAlertAdvances == 3
MaxOps == 3
MaxAlertOps == 3
MaxFired == 1002
FailingCalls == 2

Callers == 1..NumCallers
Workers == 1..MaxWorkers
Items == 1..MaxPuts

Max(a, b) == IF a >= b THEN a ELSE b
Min(a, b) == IF a <= b THEN a ELSE b

(***************************************************************************)
(* State.                                                                  *)
(***************************************************************************)
VARIABLES
    \* CircuitBreaker fields (resilience.py:32-40)
    config, state, failure_count, success_count, last_failure_time, request_count,
    \* time.time()
    now,
    \* one task per caller inside CircuitBreaker.call: "idle" or "running" (awaiting
    \* the wrapped operation at line 58), and the time its wrapped operation started
    cpc, cstart,
    \* history: how often the wrapped operation was invoked, how many calls were
    \* attempted, the last event, and the run of consecutive recorded failures
    \* since the breaker was last Closed with failure_count = 0 (-1: none)
    invoked, attempts, ev, streak,
    \* history: the time of the failure that last opened the breaker
    opened_at,
    \* RequestQueue fields (resilience.py:128-138): max_workers is the int given
    \* to the constructor or the BoundedSemaphore made in its place, sem the
    \* permits that semaphore has left, queue the content of the asyncio.Queue
    \* and unfinished its count of items not yet marked done
    max_size, max_workers, sem, queue, unfinished, processing, processed, dropped,
    shutdown_flag,
    \* the worker tasks: how many were started, where each one is suspended, the
    \* item it is handling, and the tasks shutdown() has cancelled
    nworkers, wpc, witem, wcancel,
    \* where shutdown() is, and how many workers it gathers
    spc, wgather,
    \* history: the number of put calls made (the n-th call puts item n), the
    \* items accepted, how often each item was passed to the handler and marked
    \* done, the items whose handler raised, and the last queue event
    puts, accepted, handled, done, raised, qev,
    \* RateLimiter fields (auth.py:63-69); buckets maps a key to its bucket, whose
    \* tokens are counted in 1/TokenUnit of a token
    requests_per_minute, burst_size, buckets, last_cleanup,
    \* time.time() as the limiter reads it
    rl_now,
    \* history: the number of is_allowed calls per key and of time advances, the last
    \* is_allowed call, for each key the times at which is_allowed returned True,
    \* and for each key the time its bucket was created (-1: none) and the number
    \* of is_allowed calls made on it at that very instant
    rl_calls, rl_advances, rl_ev, admitted, created, run,
    \* AlertRule fields (alerting.py:41-57) and time.time() as the rule reads it
    threshold, cooldown_seconds, last_fired, al_now,
    \* history: the number of time advances, and the checks made, oldest first
    al_advances, checked,
    \* the service: the enable_auth setting, the breakers and queues of the
    \* ResilienceManager by name, the calls in flight on each named breaker, the
    \* requests waiting for the engine, and the number of engine invocations
    enable_auth, circuit_breakers, request_queues, inflight, pending, engine_calls,
    \* history: the number of service operations, and the last one
    sv_ops, sv_ev,
    \* AlertManager (alerting.py:85-91): last_fired of each rule, the active
    \* alerts by key, the history, and time.time() as the manager reads it
    rules, active_alerts, alert_history, am_now,
    \* history: the number of alerts fired, of operations made, and the last one
    am_fired, am_ops, am_ev

bfields == <<state, failure_count, success_count, last_failure_time, request_count>>
bvars == <<config, state, failure_count, success_count, last_failure_time,
           request_count, now, cpc, cstart, invoked, attempts, ev, streak,
           opened_at>>

qvars == <<max_size, max_workers, sem, queue, unfinished, processing, processed,
           dropped, shutdown_flag, nworkers, wpc, witem, wcancel, spc, wgather,
           puts, accepted, handled, done, raised, qev>>
rvars == <<requests_per_minute, burst_size, buckets, last_cleanup, rl_now,
           rl_calls, rl_advances, rl_ev, admitted, created, run>>
avars == <<threshold, cooldown_seconds, last_fired, al_now, al_advances, checked>>
svars == <<enable_auth, circuit_breakers, request_queues, inflight, pending,
           engine_calls, sv_ops, sv_ev>>
amvars == <<rules, active_alerts, alert_history, am_now, am_fired, am_ops, am_ev>>
vars == <<bvars, qvars, rvars, avars, svars, amvars>>

\* what the operations of one component leave alone
notCB == <<qvars, rvars, avars, svars, amvars>>
notQ == <<bvars, rvars, avars, svars, amvars>>
notRL == <<bvars, qvars, avars, svars, amvars>>
notAL == <<bvars, qvars, rvars, svars, amvars>>
notSV == <<bvars, qvars, rvars, avars, amvars>>
notAM == <<bvars, qvars, rvars, avars, svars>>

CircuitState == {"closed", "open", "half_open"}

\* CircuitBreakerConfig: the values a deployment may pass
CircuitBreakerConfig ==
    [failure_threshold : 1..MaxFailureThreshold,
     recovery_timeout : 1..MaxRecoveryTimeout,
     success_threshold : 1..MaxSuccessThreshold,
     timeout : 1..MaxCallTimeout]

\* time.time() at construction: later than any recovery_timeout after the
\* initial last_failure_time = 0
StartTime == MaxRecoveryTimeout + 1

InitCB ==
    /\ config \in CircuitBreakerConfig
    /\ state = "closed"
    /\ failure_count = 0
    /\ success_count = 0
    /\ last_failure_time = 0
    /\ request_count = 0
    /\ now = StartTime
    /\ cpc = [c \in Callers |-> "idle"]
    /\ cstart = [c \in Callers |-> 0]
    /\ invoked = 0
    /\ attempts = 0
    /\ ev = [op |-> "init", c |-> 0, from |-> "closed"]
    /\ streak = 0
    /\ opened_at = 0

Event(op, c) == [op |-> op, c |-> c, from |-> state]

\* line 47: time.time() - self.last_failure_time >= self.config.recovery_timeout
RecoveryElapsedLate == now - last_failure_time > config.recovery_timeout
RecoveryElapsedEarly == now - last_failure_time >= config.recovery_timeout - 1
RecoveryElapsed == now - last_failure_time >= config.recovery_timeout

\* line 74: self.success_count >= self.config.success_threshold
ShouldCloseLate(sc) == sc > config.success_threshold
ShouldClose(sc) == sc >= config.success_threshold

\* line 88: self.failure_count >= self.config.failure_threshold
ShouldTripLate(fc) == fc > config.failure_threshold
ShouldTrip(fc) == fc >= config.failure_threshold

\* the streak of recorded failures after a step that recorded a failure (TRUE)
\* or anything else (FALSE)
StreakAfter(failed) ==
    IF state' = "closed" /\ failure_count' = 0 THEN 0
    ELSE IF failed /\ streak >= 0 THEN streak + 1
    ELSE -1

\* the time of the failure that last opened the breaker, after a step that
\* recorded a failure
OpenedAfter == IF state # "open" /\ state' = "open" THEN now ELSE opened_at

(***************************************************************************)
(* CircuitBreaker._handle_success (lines 69-79), under self.lock.          *)
(***************************************************************************)
HandleSuccessNoDecay ==
    /\ IF state = "half_open"
         THEN /\ success_count' = success_count + 1
              /\ IF ShouldClose(success_count + 1)
                   THEN state' = "closed" /\ failure_count' = 0
                   ELSE UNCHANGED <<state, failure_count>>
         ELSE UNCHANGED <<state, failure_count, success_count>>
    /\ UNCHANGED last_failure_time

HandleSuccessNoReset ==
    /\ IF state = "half_open"
         THEN /\ success_count' = success_count + 1
              /\ IF ShouldClose(success_count + 1)
                   THEN state' = "closed" /\ UNCHANGED failure_count
                   ELSE UNCHANGED <<state, failure_count>>
         ELSE IF state = "closed"
           THEN /\ failure_count' = Max(0, failure_count - 1)
                /\ UNCHANGED <<state, success_count>>
           ELSE UNCHANGED <<state, failure_count, success_count>>
    /\ UNCHANGED last_failure_time

HandleSuccessAnyOpenState ==
    /\ IF state # "closed"
         THEN /\ success_count' = success_count + 1
              /\ IF ShouldClose(success_count + 1)
                   THEN state' = "closed" /\ failure_count' = 0
                   ELSE UNCHANGED <<state, failure_count>>
         ELSE /\ failure_count' = Max(0, failure_count - 1)
              /\ UNCHANGED <<state, success_count>>
    /\ UNCHANGED last_failure_time

HandleSuccess ==
    /\ IF state = "half_open"
         THEN /\ success_count' = success_count + 1
              /\ IF ShouldClose(success_count + 1)
                   THEN state' = "closed" /\ failure_count' = 0
                   ELSE UNCHANGED <<state, failure_count>>
         ELSE IF state = "closed"
           THEN /\ failure_count' = Max(0, failure_count - 1)
                /\ UNCHANGED <<state, success_count>>
           ELSE UNCHANGED <<state, failure_count, success_count>>
    /\ UNCHANGED last_failure_time

(***************************************************************************)
(* CircuitBreaker._handle_failure (lines 81-99), under self.lock.          *)
(***************************************************************************)
HandleFailureClosedOnly ==
    /\ failure_count' = failure_count + 1
    /\ last_failure_time' = now
    /\ IF state = "closed" /\ ShouldTrip(failure_count + 1)
         THEN state' = "open"
         ELSE UNCHANGED state
    /\ UNCHANGED success_count

HandleFailure ==
    /\ failure_count' = failure_count + 1
    /\ last_failure_time' = now
    /\ IF state = "closed"
         THEN IF ShouldTrip(failure_count + 1)
                THEN state' = "open"
                ELSE UNCHANGED state
         ELSE IF state = "half_open"
           THEN state' = "open"
           ELSE UNCHANGED state
    /\ UNCHANGED success_count

(***************************************************************************)
(* CircuitBreaker.call (lines 42-67).  The lock is never held across an    *)
(* await, so the admission check, request_count += 1 and the start of the  *)
(* wrapped operation are one step; the completion of the wrapped operation *)
(* and its bookkeeping are another.                                        *)
(***************************************************************************)
CallStart(c) ==
    /\ cpc[c] = "idle"
    /\ attempts < MaxCalls
    /\ attempts' = attempts + 1
    /\ IF state = "open" /\ ~RecoveryElapsed
         THEN \* line 52: raise CircuitBreakerError
              /\ ev' = Event("rejected", c)
              /\ streak' = streak
              /\ UNCHANGED <<bfields, cpc, cstart, invoked>>
         ELSE /\ IF state = "open"
                   THEN state' = "half_open" /\ success_count' = 0
                   ELSE UNCHANGED <<state, success_count>>
              /\ request_count' = request_count + 1
              /\ invoked' = invoked + 1
              /\ cpc' = [cpc EXCEPT ![c] = "running"]
              /\ cstart' = [cstart EXCEPT ![c] = now]
              /\ ev' = Event("admitted", c)
              /\ streak' = IF state = "open" THEN -1 ELSE streak
              /\ UNCHANGED <<failure_count, last_failure_time>>
    /\ UNCHANGED <<config, now, opened_at>>

Finish(c) ==
    /\ cpc' = [cpc EXCEPT ![c] = "idle"]
    /\ cstart' = [cstart EXCEPT ![c] = 0]
    /\ UNCHANGED <<config, now, request_count, invoked, attempts>>

\* lines 58-62: the wrapped operation returns within the timeout
CallReturn(c) ==
    /\ cpc[c] = "running"
    /\ now - cstart[c] <= config.timeout
    /\ HandleSuccess
    /\ ev' = Event("success", c)
    /\ streak' = StreakAfter(FALSE)
    /\ UNCHANGED opened_at
    /\ Finish(c)

\* lines 64-67: the wrapped operation raises an Exception
CallRaise(c) ==
    /\ cpc[c] = "running"
    /\ now - cstart[c] <= config.timeout
    /\ HandleFailure
    /\ ev' = Event("failure", c)
    /\ streak' = StreakAfter(TRUE)
    /\ opened_at' = OpenedAfter
    /\ Finish(c)

\* line 58: asyncio.wait_for raises TimeoutError, an Exception (lines 64-67)
CallTimeoutUnrecorded(c) ==
    /\ cpc[c] = "running"
    /\ now - cstart[c] >= config.timeout
    /\ ev' = Event("timeout", c)
    /\ UNCHANGED <<bfields, streak, opened_at>>
    /\ Finish(c)
CallTimeout(c) ==
    /\ cpc[c] = "running"
    /\ now - cstart[c] >= config.timeout
    /\ HandleFailure
    /\ ev' = Event("timeout", c)
    /\ streak' = StreakAfter(TRUE)
    /\ opened_at' = OpenedAfter
    /\ Finish(c)

\* the caller's task is cancelled while awaiting line 58: CancelledError is a
\* BaseException, which line 64 does not catch, so nothing is recorded
CallCancelUncounted(c) ==
    /\ cpc[c] = "running"
    /\ ev' = Event("cancelled", c)
    /\ request_count' = request_count - 1
    /\ cpc' = [cpc EXCEPT ![c] = "idle"]
    /\ cstart' = [cstart EXCEPT ![c] = 0]
    /\ UNCHANGED <<config, state, failure_count, success_count, last_failure_time,
                   now, invoked, attempts, streak, opened_at>>
CallCancel(c) ==
    /\ cpc[c] = "running"
    /\ ev' = Event("cancelled", c)
    /\ UNCHANGED <<bfields, streak, opened_at>>
    /\ Finish(c)

\* main.py:305-317, the operator's reset of an existing breaker
Reset ==
    /\ state' = "closed"
    /\ failure_count' = 0
    /\ success_count' = 0
    /\ ev' = Event("reset", 0)
    /\ streak' = 0
    /\ UNCHANGED <<config, last_failure_time, request_count, now, cpc, cstart,
                   invoked, attempts, opened_at>>

Tick ==
    /\ now < StartTime + MaxTime
    /\ now' = now + 1
    /\ ev' = Event("tick", 0)
    /\ UNCHANGED <<config, bfields, cpc, cstart, invoked, attempts, streak,
                   opened_at>>

NextCB ==
    \/ \E c \in Callers : CallStart(c) /\ UNCHANGED notCB
    \/ \E c \in Callers : CallReturn(c) /\ UNCHANGED notCB
    \/ \E c \in Callers : CallRaise(c) /\ UNCHANGED notCB
    \/ \E c \in Callers : CallTimeout(c) /\ UNCHANGED notCB
    \/ \E c \in Callers : CallCancel(c) /\ UNCHANGED notCB
    \/ Reset /\ UNCHANGED notCB
    \/ Tick /\ UNCHANGED notCB

(***************************************************************************)
(* The breaker in front of a dependency that recovers: the wrapped         *)
(* operation may raise, time out or be cancelled only until FailingCalls   *)
(* calls have been attempted; from then on every admitted call returns     *)
(* before its timeout (line 58), so the clock does not pass the deadline   *)
(* of a running call.                                                      *)
(***************************************************************************)
Failing == attempts < FailingCalls

InTime(t) ==
    \A c \in Callers : cpc[c] = "running" => t - cstart[c] <= config.timeout

TickRecovering == Tick /\ (Failing \/ InTime(now + 1))

NextRecovery ==
    \/ \E c \in Callers : CallStart(c) /\ UNCHANGED notCB
    \/ \E c \in Callers : CallReturn(c) /\ UNCHANGED notCB
    \/ \E c \in Callers : Failing /\ CallRaise(c) /\ UNCHANGED notCB
    \/ \E c \in Callers : Failing /\ CallTimeout(c) /\ UNCHANGED notCB
    \/ \E c \in Callers : Failing /\ CallCancel(c) /\ UNCHANGED notCB
    \/ Reset /\ UNCHANGED notCB
    \/ TickRecovering /\ UNCHANGED notCB

(***************************************************************************)
(* RequestQueue (lines 125-217).                                           *)
(***************************************************************************)

\* line 131: asyncio.BoundedSemaphore(50)
DefaultPermits == 50

\* line 130: max_workers or asyncio.BoundedSemaphore(50)
MaxWorkersField(given) ==
    IF given = 0 THEN [kind |-> "semaphore", value |-> DefaultPermits]
    ELSE [kind |-> "int", value |-> given]

\* __init__ (lines 128-138); given = 0 stands for max_workers=None
InitQ ==
    /\ max_size \in 0..MaxSize
    /\ \E given \in 0..MaxWorkers : max_workers = MaxWorkersField(given)
    \* the permits of the semaphore (not used when max_workers is an int)
    /\ sem = DefaultPermits
    /\ queue = <<>>
    /\ unfinished = 0
    /\ processing = 0
    /\ processed = 0
    /\ dropped = 0
    /\ shutdown_flag = FALSE
    /\ nworkers = 0
    /\ wpc = [w \in Workers |-> "none"]
    /\ witem = [w \in Workers |-> 0]
    /\ wcancel = {}
    /\ spc = "idle"
    /\ wgather = 0
    /\ puts = 0
    /\ accepted = {}
    /\ handled = [i \in Items |-> 0]
    /\ done = [i \in Items |-> 0]
    /\ raised = {}
    /\ qev = [op |-> "init", who |-> 0, item |-> 0]

QEvent(op, who, item) == [op |-> op, who |-> who, item |-> item]

\* line 142: self.queue.qsize() >= self.max_size
QueueFullOffByOne == Len(queue) > max_size
QueueFull == Len(queue) >= max_size

(***************************************************************************)
(* put (lines 140-147).  The asyncio.Queue has room whenever line 142 lets *)
(* the call through, so line 147 does not suspend: put is one step.        *)
(***************************************************************************)
Put(p) ==
    /\ puts < MaxPuts
    /\ puts' = puts + 1
    /\ IF QueueFull
         THEN /\ dropped' = dropped + 1
              /\ qev' = QEvent("put_full", 0, puts + 1)
              /\ UNCHANGED <<queue, unfinished, accepted>>
         ELSE /\ queue' = Append(queue, [priority |-> p, item |-> puts + 1])
              /\ unfinished' = unfinished + 1
              /\ accepted' = accepted \cup {puts + 1}
              /\ qev' = QEvent("put", 0, puts + 1)
              /\ UNCHANGED dropped
    /\ UNCHANGED <<max_size, max_workers, sem, processing, processed,
                   shutdown_flag, nworkers, wpc, witem, wcancel, spc, wgather,
                   handled, done, raised>>

\* start_workers (lines 169-178): n tasks are created and appended to workers
StartWorkers(n) ==
    /\ n >= 1
    /\ nworkers + n <= MaxWorkers
    /\ nworkers' = nworkers + n
    /\ wpc' = [w \in Workers |->
                 IF w > nworkers /\ w <= nworkers + n THEN "new" ELSE wpc[w]]
    /\ qev' = QEvent("start_workers", 0, 0)
    /\ UNCHANGED <<max_size, max_workers, sem, queue, unfinished, processing,
                   processed, dropped, shutdown_flag, witem, wcancel, spc,
                   wgather, puts, accepted, handled, done, raised>>

(***************************************************************************)
(* _worker (lines 180-201).  A worker is suspended as "new" (created, not  *)
(* yet run), "acquire" (line 184, no permit left), "get" (line 185),       *)
(* "handling" (line 189) or "sleep" (line 201), and ends as "exited" (line *)
(* 182 saw _shutdown) or "cancelled".                                      *)
(***************************************************************************)
Alive(w) == wpc[w] \in {"new", "acquire", "get", "handling", "sleep"}

\* lines 182-185 and 199-201, from the top of the loop to the next suspension,
\* with s permits left: where the worker is then, and the permits left then
LoopHead(s) ==
    IF shutdown_flag THEN [pc |-> "exited", sem |-> s]
    ELSE IF max_workers.kind = "int" THEN [pc |-> "sleep", sem |-> s]
    ELSE IF s > 0 THEN [pc |-> "get", sem |-> s - 1]
    ELSE [pc |-> "acquire", sem |-> s]

Continue(w, s) ==
    /\ wpc' = [wpc EXCEPT ![w] = LoopHead(s).pc]
    /\ sem' = LoopHead(s).sem

\* Queue.task_done (line 195): join() is woken when the count reaches 0
TaskDone ==
    /\ unfinished' = unfinished - 1
    /\ spc' = IF spc = "joining" /\ unfinished - 1 = 0 THEN "joined" ELSE spc

\* a new task runs for the first time, a sleeping one wakes (line 201), one
\* waiting for a permit gets it (line 184)
WorkerResume(w) ==
    /\ wpc[w] \in {"new", "sleep", "acquire"}
    /\ w \notin wcancel
    /\ IF wpc[w] = "acquire"
         THEN /\ sem > 0
              /\ sem' = sem - 1
              /\ wpc' = [wpc EXCEPT ![w] = "get"]
         ELSE Continue(w, sem)
    /\ qev' = QEvent("resume", w, 0)
    /\ UNCHANGED <<max_size, max_workers, queue, unfinished, processing,
                   processed, dropped, shutdown_flag, nworkers, witem, wcancel,
                   spc, wgather, puts, accepted, handled, done, raised>>

\* get (lines 149-152) and lines 185-189: the head of the queue is taken, its
\* item unwrapped and passed to the handler
WorkerGetPeek(w) ==
    /\ wpc[w] = "get"
    /\ w \notin wcancel
    /\ queue # <<>>
    /\ processing' = processing + 1
    /\ wpc' = [wpc EXCEPT ![w] = "handling"]
    /\ witem' = [witem EXCEPT ![w] = Head(queue).item]
    /\ handled' = [handled EXCEPT ![Head(queue).item] = @ + 1]
    /\ qev' = QEvent("get", w, Head(queue).item)
    /\ UNCHANGED <<max_size, max_workers, sem, queue, unfinished, processed,
                   dropped, shutdown_flag, nworkers, wcancel, spc, wgather,
                   puts, accepted, done, raised>>

WorkerGetByPriority(w) ==
    /\ wpc[w] = "get"
    /\ w \notin wcancel
    /\ queue # <<>>
    /\ LET i == CHOOSE i \in 1..Len(queue) :
                    \A j \in 1..Len(queue) :
                        \/ queue[i].priority < queue[j].priority
                        \/ queue[i].priority = queue[j].priority /\ i <= j
       IN /\ queue' = [k \in 1..(Len(queue) - 1) |->
                          IF k < i THEN queue[k] ELSE queue[k + 1]]
          /\ witem' = [witem EXCEPT ![w] = queue[i].item]
          /\ handled' = [handled EXCEPT ![queue[i].item] = @ + 1]
          /\ qev' = QEvent("get", w, queue[i].item)
    /\ processing' = processing + 1
    /\ wpc' = [wpc EXCEPT ![w] = "handling"]
    /\ UNCHANGED <<max_size, max_workers, sem, unfinished, processed, dropped,
                   shutdown_flag, nworkers, wcancel, spc, wgather, puts,
                   accepted, done, raised>>
WorkerGet(w) ==
    /\ wpc[w] = "get"
    /\ w \notin wcancel
    /\ queue # <<>>
    /\ queue' = Tail(queue)
    /\ processing' = processing + 1
    /\ wpc' = [wpc EXCEPT ![w] = "handling"]
    /\ witem' = [witem EXCEPT ![w] = Head(queue).item]
    /\ handled' = [handled EXCEPT ![Head(queue).item] = @ + 1]
    /\ qev' = QEvent("get", w, Head(queue).item)
    /\ UNCHANGED <<max_size, max_workers, sem, unfinished, processed, dropped,
                   shutdown_flag, nworkers, wcancel, spc, wgather, puts,
                   accepted, done, raised>>

\* lines 185, 197-198: no item within the timeout; the permit is released and
\* the loop goes on
WorkerTimeout(w) ==
    /\ wpc[w] = "get"
    /\ w \notin wcancel
    /\ queue = <<>>
    /\ Continue(w, sem + 1)
    /\ qev' = QEvent("timeout", w, 0)
    /\ UNCHANGED <<max_size, max_workers, queue, unfinished, processing,
                   processed, dropped, shutdown_flag, nworkers, witem, wcancel,
                   spc, wgather, puts, accepted, handled, done, raised>>

\* lines 193-195 and the end of the async with block at line 184
FinallyUncounted(w) ==
    /\ processing' = processing
    /\ TaskDone
    /\ done' = [done EXCEPT ![witem[w]] = @ + 1]
    /\ witem' = [witem EXCEPT ![w] = 0]
Finally(w) ==
    /\ processing' = processing - 1
    /\ TaskDone
    /\ done' = [done EXCEPT ![witem[w]] = @ + 1]
    /\ witem' = [witem EXCEPT ![w] = 0]

\* lines 189-190, 193-195: the handler returns
HandlerReturn(w) ==
    /\ wpc[w] = "handling"
    /\ w \notin wcancel
    /\ processed' = processed + 1
    /\ Finally(w)
    /\ Continue(w, sem + 1)
    /\ qev' = QEvent("returned", w, witem[w])
    /\ UNCHANGED <<max_size, max_workers, queue, dropped, shutdown_flag,
                   nworkers, wcancel, wgather, puts, accepted, handled, raised>>

\* lines 191-195: the handler raises an Exception
HandlerRaiseEndsWorker(w) ==
    /\ wpc[w] = "handling"
    /\ w \notin wcancel
    /\ Finally(w)
    /\ wpc' = [wpc EXCEPT ![w] = "exited"]
    /\ sem' = sem + 1
    /\ raised' = raised \cup {witem[w]}
    /\ qev' = QEvent("raised", w, witem[w])
    /\ UNCHANGED <<max_size, max_workers, queue, processed, dropped,
                   shutdown_flag, nworkers, wcancel, wgather, puts, accepted,
                   handled>>

HandlerRaise(w) ==
    /\ wpc[w] = "handling"
    /\ w \notin wcancel
    /\ Finally(w)
    /\ Continue(w, sem + 1)
    /\ raised' = raised \cup {witem[w]}
    /\ qev' = QEvent("raised", w, witem[w])
    /\ UNCHANGED <<max_size, max_workers, queue, processed, dropped,
                   shutdown_flag, nworkers, wcancel, wgather, puts, accepted,
                   handled>>

\* a task cancelled by line 212 gets CancelledError where it is suspended; it
\* is a BaseException, so lines 191 and 199 do not catch it, the finally
\* block and the async with block are left in the usual way, and the task ends
WorkerCancelled(w) ==
    /\ w \in wcancel
    /\ Alive(w)
    /\ wpc' = [wpc EXCEPT ![w] = "cancelled"]
    /\ IF wpc[w] = "handling"
         THEN /\ Finally(w)
              /\ sem' = sem + 1
         ELSE /\ sem' = IF wpc[w] = "get" THEN sem + 1 ELSE sem
              /\ UNCHANGED <<processing, unfinished, spc, done, witem>>
    /\ qev' = QEvent("cancelled", w, witem[w])
    /\ UNCHANGED <<max_size, max_workers, queue, processed, dropped,
                   shutdown_flag, nworkers, wcancel, wgather, puts, accepted,
                   handled, raised>>

(***************************************************************************)
(* shutdown (lines 203-217).                                               *)
(***************************************************************************)
\* lines 211-215: every worker task is cancelled, then gathered
CancelWorkers ==
    /\ wcancel' = {w \in Workers : Alive(w)}
    /\ wgather' = nworkers
    /\ spc' = "gathering"

\* lines 205-208; join() returns at once when nothing is unfinished
ShutdownBegin ==
    /\ spc = "idle"
    /\ shutdown_flag' = TRUE
    /\ IF unfinished = 0
         THEN CancelWorkers
         ELSE spc' = "joining" /\ UNCHANGED <<wcancel, wgather>>
    /\ qev' = QEvent("shutdown", 0, 0)
    /\ UNCHANGED <<max_size, max_workers, sem, queue, unfinished, processing,
                   processed, dropped, nworkers, wpc, witem, puts, accepted,
                   handled, done, raised>>

\* lines 208-212: join() has been woken
ShutdownCancel ==
    /\ spc = "joined"
    /\ CancelWorkers
    /\ qev' = QEvent("joined", 0, 0)
    /\ UNCHANGED <<max_size, max_workers, sem, queue, unfinished, processing,
                   processed, dropped, shutdown_flag, nworkers, wpc, witem,
                   puts, accepted, handled, done, raised>>

\* lines 215-217: every gathered task has ended
ShutdownDone ==
    /\ spc = "gathering"
    /\ \A w \in 1..wgather : ~Alive(w)
    /\ spc' = "done"
    /\ qev' = QEvent("shutdown_done", 0, 0)
    /\ UNCHANGED <<max_size, max_workers, sem, queue, unfinished, processing,
                   processed, dropped, shutdown_flag, nworkers, wpc, witem,
                   wcancel, wgather, puts, accepted, handled, done, raised>>

NextQ ==
    \/ \E p \in 0..MaxPriority : Put(p) /\ UNCHANGED notQ
    \/ \E n \in 1..MaxWorkers : StartWorkers(n) /\ UNCHANGED notQ
    \/ \E w \in Workers : WorkerResume(w) /\ UNCHANGED notQ
    \/ \E w \in Workers : WorkerGet(w) /\ UNCHANGED notQ
    \/ \E w \in Workers : WorkerTimeout(w) /\ UNCHANGED notQ
    \/ \E w \in Workers : HandlerReturn(w) /\ UNCHANGED notQ
    \/ \E w \in Workers : HandlerRaise(w) /\ UNCHANGED notQ
    \/ \E w \in Workers : WorkerCancelled(w) /\ UNCHANGED notQ
    \/ ShutdownBegin /\ UNCHANGED notQ
    \/ ShutdownCancel /\ UNCHANGED notQ
    \/ ShutdownDone /\ UNCHANGED notQ

(***************************************************************************)
(* RateLimiter (src/app/auth.py, lines 60-155).  Its methods are plain     *)
(* functions without a suspension point, so each call is one step.         *)
(***************************************************************************)
\* the client identifiers the middleware passes as key (lines 172, 192)
Keys == {"key-a", "key-b"}

\* rate_per_second = requests_per_minute / 60.0 (line 66): with tokens counted
\* in sixtieths, elapsed * rate_per_second is elapsed * requests_per_minute
TokenUnit == 60
\* cleanup_interval (line 68) and the idle time after which a bucket is old
\* (line 107), in seconds
CleanupInterval == 300
IdleLimit == 3600
\* min(requests_per_minute, 100) (line 65)
DefaultBurstCap == 100
\* time.time() when the limiter or the rule is made, in seconds
Epoch == 1000000

\* the arguments RateLimiter is made with: requests_per_minute, and burst_size
\* or 0 for None (the middleware passes only requests_per_minute)
RateLimiterArgs == {<<2, 0>>, <<2, 1>>, <<60, 1>>, <<60, 2>>, <<60, 10>>}
\* how far time.time() moves between two calls
RLSteps ==
    {1, 29, 30, CleanupInterval + 1, IdleLimit + 1, IdleLimit + CleanupInterval + 1}

\* burst_size or min(requests_per_minute, 100) (line 65)
BurstSize(rpm, given) == IF given = 0 THEN Min(rpm, DefaultBurstCap) ELSE given
Capacity == burst_size * TokenUnit

\* the calls a client makes: one client enough to use up its burst and more,
\* the other ones a few
CallBudget(key) == IF key = "key-a" THEN burst_size + ExtraCalls ELSE MaxOtherCalls

\* the last is_allowed call: its key, what it returned, whether it created the
\* bucket, and when it was made
REvent(key, result, fresh) ==
    [key |-> key, result |-> result, fresh |-> fresh, at |-> rl_now]
NoEvent == [key |-> "", result |-> FALSE, fresh |-> FALSE, at |-> 0]

InitRL ==
    /\ \E a \in RateLimiterArgs :
        /\ requests_per_minute = a[1]
        /\ burst_size = BurstSize(a[1], a[2])
    /\ buckets = <<>>
    /\ last_cleanup = Epoch
    /\ rl_now = Epoch
    /\ rl_calls = [k \in Keys |-> 0]
    /\ rl_advances = 0
    /\ rl_ev = NoEvent
    /\ admitted = [k \in Keys |-> <<>>]
    /\ created = [k \in Keys |-> -1]
    /\ run = [k \in Keys |-> 0]

\* line 76
CleanupDue == rl_now - last_cleanup > CleanupInterval
\* line 107
IsOldEarly(bucket) == rl_now - bucket.last_request > CleanupInterval
IsOld(bucket) == rl_now - bucket.last_request > IdleLimit

\* _cleanup_old_buckets (lines 100-114)
CleanupOldBuckets ==
    [j \in {i \in DOMAIN buckets : ~IsOld(buckets[i])} |-> buckets[j]]

\* the buckets as _get_bucket (lines 71-88) leaves them before it looks for key
Swept == IF CleanupDue THEN CleanupOldBuckets ELSE buckets

\* lines 81-86
NewBucket ==
    [tokens |-> Capacity, last_refill |-> rl_now, requests |-> 0,
     last_request |-> rl_now]

\* _refill_bucket (lines 90-98)
RefillBucketUncapped(bucket) ==
    [bucket EXCEPT
        !.tokens = @ + (rl_now - bucket.last_refill) * requests_per_minute,
        !.last_refill = rl_now]
RefillBucket(bucket) ==
    [bucket EXCEPT
        !.tokens = Min(Capacity, @ + (rl_now - bucket.last_refill) * requests_per_minute),
        !.last_refill = rl_now]

\* line 124: bucket['tokens'] >= 1.0
HasTokenAny(bucket) == bucket.tokens > 0
HasToken(bucket) == bucket.tokens >= TokenUnit

\* is_allowed (lines 116-134), with the _get_bucket and _refill_bucket it calls
IsAllowed(key) ==
    /\ rl_calls[key] < CallBudget(key)
    /\ LET fresh == key \notin DOMAIN Swept
           found == IF fresh THEN NewBucket ELSE Swept[key]
           refilled == RefillBucket(found)
           used == [refilled EXCEPT !.last_request = rl_now, !.requests = @ + 1]
           ok == HasToken(used)
           left == IF ok THEN [used EXCEPT !.tokens = @ - TokenUnit] ELSE used
       IN /\ buckets' = [j \in DOMAIN Swept \cup {key} |->
                            IF j = key THEN left ELSE Swept[j]]
          /\ last_cleanup' = IF CleanupDue THEN rl_now ELSE last_cleanup
          /\ rl_ev' = REvent(key, ok, fresh)
          /\ admitted' = IF ok THEN [admitted EXCEPT ![key] = Append(@, rl_now)]
                         ELSE admitted
          /\ created' = IF fresh THEN [created EXCEPT ![key] = rl_now] ELSE created
          /\ run' = IF fresh THEN [run EXCEPT ![key] = 1]
                    ELSE IF rl_now = created[key] THEN [run EXCEPT ![key] = @ + 1]
                    ELSE run
    /\ rl_calls' = [rl_calls EXCEPT ![key] = @ + 1]
    /\ UNCHANGED <<requests_per_minute, burst_size, rl_now, rl_advances>>

\* get_stats (lines 136-155): an unknown key gets the defaults and no bucket
GetStats(key) ==
    /\ buckets' = IF key \in DOMAIN buckets
                  THEN [buckets EXCEPT ![key] = RefillBucket(@)]
                  ELSE buckets
    /\ UNCHANGED <<requests_per_minute, burst_size, last_cleanup, rl_now,
                   rl_calls, rl_advances, rl_ev, admitted, created, run>>

\* time passes
Advance(d) ==
    /\ rl_advances < MaxAdvances
    /\ rl_now' = rl_now + d
    /\ rl_advances' = rl_advances + 1
    /\ UNCHANGED <<requests_per_minute, burst_size, buckets, last_cleanup,
                   rl_calls, rl_ev, admitted, created, run>>

NextRL ==
    \/ \E key \in Keys : IsAllowed(key) /\ UNCHANGED notRL
    \/ \E key \in Keys : GetStats(key) /\ UNCHANGED notRL
    \/ \E d \in RLSteps : Advance(d) /\ UNCHANGED notRL

(***************************************************************************)
(* AlertRule (src/app/alerting.py, lines 38-79), for a rule whose          *)
(* condition is "lambda x: x > threshold" as in the default rules.         *)
(***************************************************************************)
\* threshold and cooldown_seconds of the rules checked: gpu_memory_critical as
\* the manager makes it (lines 107-114), and the same rule with the default
\* cooldown of 300 seconds (line 49)
AlertRules == {<<95, 180>>, <<95, 300>>}
\* the values checked, and how far time.time() moves between two checks
Values == {95, 96, 97}
ALSteps == {1, 180, 300}

\* a check made: when, on which value, and whether it returned an Alert
Checked(value, alert) == [at |-> al_now, value |-> value, alert |-> alert]

InitAL ==
    /\ \E r \in AlertRules :
        /\ threshold = r[1]
        /\ cooldown_seconds = r[2]
    /\ last_fired = 0
    /\ al_now = Epoch
    /\ al_advances = 0
    /\ checked = <<>>

\* self.condition(value)
Condition(value) == value > threshold

\* line 66
InCooldown == al_now - last_fired < cooldown_seconds

\* check (lines 59-79)
CheckForgetful(value) ==
    /\ Len(checked) < MaxChecks
    /\ checked' = Append(checked, Checked(value, Condition(value) /\ ~InCooldown))
    /\ UNCHANGED <<threshold, cooldown_seconds, last_fired, al_now, al_advances>>
CheckRefreshing(value) ==
    /\ Len(checked) < MaxChecks
    /\ last_fired' = IF Condition(value) THEN al_now ELSE last_fired
    /\ checked' = Append(checked, Checked(value, Condition(value) /\ ~InCooldown))
    /\ UNCHANGED <<threshold, cooldown_seconds, al_now, al_advances>>
Check(value) ==
    /\ Len(checked) < MaxChecks
    /\ IF ~Condition(value)
       THEN /\ checked' = Append(checked, Checked(value, FALSE))
            /\ UNCHANGED last_fired
       ELSE IF InCooldown
       THEN /\ checked' = Append(checked, Checked(value, FALSE))
            /\ UNCHANGED last_fired
       ELSE /\ last_fired' = al_now
            /\ checked' = Append(checked, Checked(value, TRUE))
    /\ UNCHANGED <<threshold, cooldown_seconds, al_now, al_advances>>

\* time passes
AdvanceAL(d) ==
    /\ al_advances < MaxAlertAdvances
    /\ al_now' = al_now + d
    /\ al_advances' = al_advances + 1
    /\ UNCHANGED <<threshold, cooldown_seconds, last_fired, checked>>

NextAL ==
    \/ \E value \in Values : Check(value) /\ UNCHANGED notAL
    \/ \E d \in ALSteps : AdvanceAL(d) /\ UNCHANGED notAL

(***************************************************************************)
(* The service as src/app/main.py wires it: the requests to /v1/generate   *)
(* and /v1/stream behind the auth middleware and its RateLimiter, the      *)
(* exception handlers of src/app/errors.py, and the ResilienceManager      *)
(* (resilience.py, lines 226-291) with its named breakers and queues.      *)
(* time.time() is rl_now.                                                  *)
(***************************************************************************)
\* the rate_limit_rpm setting of the runs
RateLimitRpm == 1
\* the names breakers and queues are asked for
Names == {"engine", "other"}
Routes == {"/v1/generate", "/v1/stream"}
\* the Authorization header of a request: none, a key that is not valid, or a
\* valid key
Credentials == {"missing", "invalid", "valid"}

\* CircuitBreakerConfig() (resilience.py, lines 23-26)
DefaultBreakerConfig ==
    [failure_threshold |-> 5, recovery_timeout |-> 60, success_threshold |-> 3,
     timeout |-> 30]
\* a configuration a caller of get_circuit_breaker passes
StrictBreakerConfig ==
    [failure_threshold |-> 1, recovery_timeout |-> 30, success_threshold |-> 1,
     timeout |-> 30]
\* the config argument of get_circuit_breaker: <<FALSE, _>> is None
BreakerArgs == {<<TRUE, StrictBreakerConfig>>}
\* max_size of RequestQueue (line 128) and of get_request_queue (line 240)
DefaultMaxSize == 1000
\* the max_size and max_workers arguments of get_request_queue (0: None)
QueueArgs == {<<1, 1>>}

\* InferenceServiceError and its subclasses (errors.py, lines 16-58): error_type
\* and status_code
ServiceErrors ==
    [RateLimitError |-> <<"rate_limit_exceeded", 429>>,
     InferenceError |-> <<"inference_error", 500>>,
     ModelLoadError |-> <<"model_load_error", 503>>,
     ResourceExhaustedError |-> <<"resource_exhausted", 503>>,
     ValidationError |-> <<"validation_error", 422>>]

\* ErrorHandler.create_error_response (errors.py, lines 69-112) and
\* inference_service_error_handler (lines 149-166): CircuitBreakerError and
\* QueueFullError (resilience.py, lines 119, 220) derive from Exception only
CreateErrorResponse(error) ==
    IF error \in DOMAIN ServiceErrors
    THEN [status_code |-> ServiceErrors[error][2],
          error_type |-> ServiceErrors[error][1],
          message |-> error]
    ELSE [status_code |-> 500,
          error_type |-> "internal_error",
          message |-> "An internal server error occurred"]

\* the body of GET /resilience/stats when no breaker and no queue exists
NoBody == [circuit_breakers |-> <<>>, request_queues |-> <<>>]
\* what the service did last: the operation, the name or key it was about, the
\* response (status_code 0: no HTTP response), whether the engine was invoked
\* for the request, and the statistics returned
SEvent(op, who, response) ==
    [op |-> op, who |-> who, status_code |-> response.status_code,
     error_type |-> response.error_type, message |-> response.message,
     engine |-> FALSE, body |-> NoBody]
Ok == [status_code |-> 200, error_type |-> "", message |-> ""]
NoResponse == [status_code |-> 0, error_type |-> "", message |-> ""]
\* the HTTPException of authenticate_request (auth.py, lines 176-188) through
\* create_error_response (errors.py, lines 82-85)
Unauthorized(cred) ==
    [status_code |-> 401, error_type |-> "http_error",
     message |-> IF cred = "missing" THEN "Authentication required"
                 ELSE "Invalid API key"]

\* CircuitBreaker.__init__ (lines 32-40)
NewBreaker(cfg) ==
    [config |-> cfg, state |-> "closed", failure_count |-> 0, success_count |-> 0,
     last_failure_time |-> 0, request_count |-> 0]

\* RequestQueue.__init__ (lines 128-138)
NewQueue(size, workers) ==
    [max_size |-> size, max_workers |-> MaxWorkersField(workers), queue |-> <<>>,
     processing |-> 0, processed |-> 0, dropped |-> 0]

InitSV ==
    /\ enable_auth \in BOOLEAN
    /\ circuit_breakers = <<>>
    /\ request_queues = <<>>
    /\ inflight = [n \in Names |-> 0]
    /\ pending = {}
    /\ engine_calls = 0
    /\ sv_ops = 0
    /\ sv_ev = SEvent("init", "", NoResponse)

\* a dict with one more entry
With(dict, name, value) ==
    [n \in DOMAIN dict \cup {name} |-> IF n = name THEN value ELSE dict[n]]

\* get_circuit_breaker (lines 233-237): the registry after the call
BreakersAfterGetLastWins(name, given, cfg) ==
    With(circuit_breakers, name,
         IF name \in DOMAIN circuit_breakers /\ ~given THEN circuit_breakers[name]
         ELSE NewBreaker(IF given THEN cfg ELSE DefaultBreakerConfig))
BreakersAfterGet(name, given, cfg) ==
    IF name \in DOMAIN circuit_breakers THEN circuit_breakers
    ELSE With(circuit_breakers, name,
              NewBreaker(IF given THEN cfg ELSE DefaultBreakerConfig))

\* get_request_queue (lines 239-245): the registry after the call
QueuesAfterGet(name, size, workers) ==
    IF name \in DOMAIN request_queues THEN request_queues
    ELSE With(request_queues, name, NewQueue(size, workers))

\* an operation of the service, which are capped at MaxOps
Step(op, who, response) ==
    /\ sv_ops < MaxOps
    /\ sv_ops' = sv_ops + 1
    /\ sv_ev' = SEvent(op, who, response)

GetCircuitBreaker(name, given, cfg) ==
    /\ Step("get_circuit_breaker", name, NoResponse)
    /\ circuit_breakers' = BreakersAfterGet(name, given, cfg)
    /\ UNCHANGED <<enable_auth, request_queues, inflight, pending, engine_calls>>

GetRequestQueue(name, size, workers) ==
    /\ Step("get_request_queue", name, NoResponse)
    /\ request_queues' = QueuesAfterGet(name, size, workers)
    /\ UNCHANGED <<enable_auth, circuit_breakers, inflight, pending, engine_calls>>

\* CircuitBreaker.call, lines 44-54, on a breaker of the registry
BreakerRejects(b) ==
    b.state = "open" /\ rl_now - b.last_failure_time < b.config.recovery_timeout
BreakerAdmitted(b) ==
    [b EXCEPT !.state = IF @ = "open" THEN "half_open" ELSE @,
              !.success_count = IF b.state = "open" THEN 0 ELSE @,
              !.request_count = @ + 1]
\* _handle_success (lines 69-79)
BreakerSucceeded(b) ==
    IF b.state = "half_open"
    THEN IF b.success_count + 1 >= b.config.success_threshold
         THEN [b EXCEPT !.success_count = @ + 1, !.state = "closed",
                        !.failure_count = 0]
         ELSE [b EXCEPT !.success_count = @ + 1]
    ELSE IF b.state = "closed"
    THEN [b EXCEPT !.failure_count = Max(0, @ - 1)]
    ELSE b
\* _handle_failure (lines 81-99)
BreakerFailed(b) ==
    [b EXCEPT !.failure_count = @ + 1,
              !.last_failure_time = rl_now,
              !.state = IF @ = "closed"
                        THEN IF b.failure_count + 1 >= b.config.failure_threshold
                             THEN "open" ELSE "closed"
                        ELSE "open"]

\* with_circuit_breaker (lines 280-284) up to the await of line 58
WithCircuitBreaker(name) ==
    LET got == BreakersAfterGet(name, FALSE, DefaultBreakerConfig)
    IN IF BreakerRejects(got[name])
       THEN /\ Step("with_circuit_breaker", name, CreateErrorResponse("CircuitBreakerError"))
            /\ circuit_breakers' = got
            /\ UNCHANGED <<enable_auth, request_queues, inflight, pending, engine_calls>>
       ELSE /\ Step("with_circuit_breaker", name, NoResponse)
            /\ circuit_breakers' = [got EXCEPT ![name] = BreakerAdmitted(@)]
            /\ inflight' = [inflight EXCEPT ![name] = @ + 1]
            /\ UNCHANGED <<enable_auth, request_queues, pending, engine_calls>>

\* the wrapped operation of a call on a named breaker returns, or raises or
\* times out (lines 58-67)
BreakerCallEnds(name, failed) ==
    /\ inflight[name] > 0
    /\ inflight' = [inflight EXCEPT ![name] = @ - 1]
    /\ circuit_breakers' =
          [circuit_breakers EXCEPT
              ![name] = IF failed THEN BreakerFailed(@) ELSE BreakerSucceeded(@)]
    /\ sv_ev' = SEvent(IF failed THEN "call_failed" ELSE "call_returned", name,
                       NoResponse)
    /\ UNCHANGED <<enable_auth, request_queues, pending, engine_calls, sv_ops>>

\* queue_request (lines 287-291) with put (lines 140-147)
QueueRequest(name) ==
    LET got == QueuesAfterGet(name, DefaultMaxSize, 0)
        full == Len(got[name].queue) >= got[name].max_size
    IN /\ Step("queue_request", name,
               IF full THEN CreateErrorResponse("QueueFullError") ELSE NoResponse)
       /\ request_queues' =
             IF full THEN [got EXCEPT ![name].dropped = @ + 1]
             ELSE [got EXCEPT ![name].queue = Append(@, sv_ops)]
       /\ UNCHANGED <<enable_auth, circuit_breakers, inflight, pending, engine_calls>>

\* reset_circuit_breaker (main.py, lines 305-317)
ResetCircuitBreakerStateOnly(name) ==
    /\ Step("reset_circuit_breaker", name,
            [Ok EXCEPT !.message = IF name \in DOMAIN circuit_breakers
                                   THEN "reset successfully" ELSE "not found"])
    /\ circuit_breakers' =
          IF name \in DOMAIN circuit_breakers
          THEN [circuit_breakers EXCEPT ![name] = [@ EXCEPT !.state = "closed"]]
          ELSE circuit_breakers
    /\ UNCHANGED <<enable_auth, request_queues, inflight, pending, engine_calls>>
ResetCircuitBreaker(name) ==
    /\ Step("reset_circuit_breaker", name,
            [Ok EXCEPT !.message = IF name \in DOMAIN circuit_breakers
                                   THEN "reset successfully" ELSE "not found"])
    /\ circuit_breakers' =
          IF name \in DOMAIN circuit_breakers
          THEN [circuit_breakers EXCEPT
                   ![name] = [@ EXCEPT !.state = "closed", !.failure_count = 0,
                                       !.success_count = 0]]
          ELSE circuit_breakers
    /\ UNCHANGED <<enable_auth, request_queues, inflight, pending, engine_calls>>

\* CircuitBreaker.get_stats (resilience.py, lines 101-116)
BreakerStats(name) ==
    LET b == circuit_breakers[name]
    IN [name |-> name, state |-> b.state, failure_count |-> b.failure_count,
        success_count |-> b.success_count, request_count |-> b.request_count,
        last_failure_time |-> b.last_failure_time, config |-> b.config]

\* RequestQueue.get_stats (lines 158-167); no worker is started through the
\* manager
QueueStats(name) ==
    LET q == request_queues[name]
    IN [queue_size |-> Len(q.queue), max_size |-> q.max_size,
        processing |-> q.processing, processed |-> q.processed,
        dropped |-> q.dropped, workers |-> 0]

\* get_all_stats (lines 247-256)
AllStats ==
    [circuit_breakers |-> [n \in DOMAIN circuit_breakers |-> BreakerStats(n)],
     request_queues |-> [n \in DOMAIN request_queues |-> QueueStats(n)]]

\* GET /resilience/stats (main.py, lines 298-302)
GetAllStatsResetting ==
    /\ sv_ops < MaxOps
    /\ sv_ops' = sv_ops + 1
    /\ sv_ev' = [SEvent("get_all_stats", "", Ok) EXCEPT !.body = AllStats]
    /\ circuit_breakers' =
          [n \in DOMAIN circuit_breakers |->
              [circuit_breakers[n] EXCEPT !.request_count = 0]]
    /\ UNCHANGED <<enable_auth, request_queues, inflight, pending, engine_calls>>
GetAllStats ==
    /\ sv_ops < MaxOps
    /\ sv_ops' = sv_ops + 1
    /\ sv_ev' = [SEvent("get_all_stats", "", Ok) EXCEPT !.body = AllStats]
    /\ UNCHANGED <<enable_auth, circuit_breakers, request_queues, inflight, pending,
                   engine_calls>>

\* a request to /v1/generate or /v1/stream up to the await of the engine
\* (main.py, lines 143-166 and 194-220): the require_auth dependency runs
\* AuthMiddleware.__call__ (auth.py, lines 167-236) first. The get_stats of
\* line 197 follows is_allowed at the same time.time() and refills nothing.
RequestRejected(route, cred, key) ==
    /\ enable_auth /\ cred # "valid"
    /\ Step("request", key, Unauthorized(cred))
    /\ UNCHANGED <<enable_auth, circuit_breakers, request_queues, inflight, pending,
                   engine_calls>>
    /\ UNCHANGED rvars
RequestUnchecked(route, cred, key) ==
    /\ sv_ops < MaxOps
    /\ sv_ops' = sv_ops + 1
    /\ IsAllowed(key)
    /\ sv_ev' = [SEvent("request", key, NoResponse) EXCEPT !.engine = TRUE]
    /\ pending' = pending \cup {[id |-> sv_ops, route |-> route, key |-> key]}
    /\ engine_calls' = engine_calls + 1
    /\ UNCHANGED <<enable_auth, circuit_breakers, request_queues, inflight>>
RequestChecked(route, cred, key) ==
    /\ ~enable_auth \/ cred = "valid"
    /\ sv_ops < MaxOps
    /\ sv_ops' = sv_ops + 1
    /\ IsAllowed(key)
    /\ IF rl_ev'.result
       THEN /\ sv_ev' = [SEvent("request", key, NoResponse) EXCEPT !.engine = TRUE]
            /\ pending' = pending \cup {[id |-> sv_ops, route |-> route, key |-> key]}
            /\ engine_calls' = engine_calls + 1
       ELSE /\ sv_ev' = SEvent("request", key, CreateErrorResponse("RateLimitError"))
            /\ UNCHANGED <<pending, engine_calls>>
    /\ UNCHANGED <<enable_auth, circuit_breakers, request_queues, inflight>>
Request(route, cred, key) ==
    \/ RequestRejected(route, cred, key)
    \/ RequestChecked(route, cred, key)

\* the engine returns (main.py, lines 168-175 and 226-230)
EngineReturn(r) ==
    /\ r \in pending
    /\ pending' = pending \ {r}
    /\ sv_ev' = SEvent("engine_returned", r.key, Ok)
    /\ UNCHANGED <<enable_auth, circuit_breakers, request_queues, inflight,
                   engine_calls, sv_ops>>

\* the engine raises: generate converts to InferenceError (lines 177-187),
\* stream has sent its status and yields an error event (lines 231-234)
EngineRaise(r) ==
    /\ r \in pending
    /\ pending' = pending \ {r}
    /\ sv_ev' = SEvent("engine_raised", r.key,
                       IF r.route = "/v1/generate"
                       THEN CreateErrorResponse("InferenceError")
                       ELSE [Ok EXCEPT !.message = "stream failed"])
    /\ UNCHANGED <<enable_auth, circuit_breakers, request_queues, inflight,
                   engine_calls, sv_ops>>

\* the clock steps of the service runs
SVSteps == {IdleLimit + 1}

\* time passes for the limiter and the breakers of the service
AdvanceSV(d) ==
    /\ Step("advance", "", NoResponse)
    /\ Advance(d)
    /\ UNCHANGED <<enable_auth, circuit_breakers, request_queues, inflight, pending,
                   engine_calls>>

NextSV ==
    \/ \E n \in Names, a \in BreakerArgs :
          GetCircuitBreaker(n, a[1], a[2]) /\ UNCHANGED notSV
    \/ \E n \in Names, a \in QueueArgs :
          GetRequestQueue(n, a[1], a[2]) /\ UNCHANGED notSV
    \/ \E n \in Names : WithCircuitBreaker(n) /\ UNCHANGED notSV
    \/ \E n \in Names, failed \in BOOLEAN : BreakerCallEnds(n, failed) /\ UNCHANGED notSV
    \/ \E n \in Names : QueueRequest(n) /\ UNCHANGED notSV
    \/ \E n \in Names : ResetCircuitBreaker(n) /\ UNCHANGED notSV
    \/ GetAllStats /\ UNCHANGED notSV
    \/ \E route \in Routes, cred \in Credentials, k \in Keys :
          Request(route, cred, k) /\ UNCHANGED <<bvars, qvars, avars, amvars>>
    \/ \E r \in pending : EngineReturn(r) /\ UNCHANGED notSV
    \/ \E r \in pending : EngineRaise(r) /\ UNCHANGED notSV
    \/ \E d \in SVSteps : AdvanceSV(d) /\ UNCHANGED <<bvars, qvars, avars, amvars>>

(***************************************************************************)
(* AlertManager (src/app/alerting.py, lines 82-260) with three of its      *)
(* default rules.  time.time() is am_now.  Names are sequences of words,   *)
(* so that the substring test of line 179 is the test for a run of words.  *)
(***************************************************************************)
\* self.max_history_size (line 89)
MaxHistorySize == 1000

\* _setup_default_rules (lines 94-165): name, threshold of the condition
\* lambda x: x > threshold, and cooldown_seconds, in the order of the list
DefaultRules ==
    << [name |-> <<"gpu", "memory", "high">>, threshold |-> 90, cooldown_seconds |-> 300],
       [name |-> <<"gpu", "memory", "critical">>, threshold |-> 95, cooldown_seconds |-> 180],
       [name |-> <<"cpu", "usage", "high">>, threshold |-> 80, cooldown_seconds |-> 300] >>
RuleIds == 1..Len(DefaultRules)
RuleNames == {DefaultRules[r].name : r \in RuleIds}

\* the metric names and values given to check_metric
Metrics == {<<"gpu", "memory">>, <<"cpu", "usage">>}
MetricValues == {85, 96}
\* the labels given to check_metric and resolve_alert: a dict is the sequence
\* of its entries in insertion order; <<>> is None as well as {} (labels or {},
\* lines 76 and 252)
Labels ==
    { <<>>,
      << <<"gpu", "0">>, <<"host", "a">> >>,
      << <<"host", "a">>, <<"gpu", "0">> >> }
\* how far time.time() moves between two calls
AMSteps == {180, 300}

\* a in b (line 179): a occurs in b as a run
In(a, b) ==
    \E i \in 0..(Len(b) - Len(a)) : \A j \in 1..Len(a) : b[i + j] = a[j]
\* line 179: metric_name in rule.name or rule.name in metric_name
Matches(metric, r) == In(metric, DefaultRules[r].name) \/ In(DefaultRules[r].name, metric)

\* str(labels) (lines 189, 252) lists the entries in insertion order, and
\* hash() tells apart the strings of Labels: the key is the name with that
\* string
AlertKey(name, labels) == <<name, labels>>

\* AlertRule.check (lines 59-79) for rule r at am_now
Fires(r, value) ==
    /\ value > DefaultRules[r].threshold
    /\ ~(am_now - rules[r] < DefaultRules[r].cooldown_seconds)

\* the Alert of lines 71-79; seq numbers the alerts in the order they fired
NewAlert(r, value, labels, n) ==
    [name |-> DefaultRules[r].name, timestamp |-> am_now, labels |-> labels,
     value |-> value, seq |-> n]

\* lines 196-197: the history cut to its newest max_history_size alerts
TruncatedOldest(history) ==
    IF Len(history) > MaxHistorySize THEN SubSeq(history, 1, MaxHistorySize)
    ELSE history
Truncated(history) ==
    IF Len(history) > MaxHistorySize
    THEN SubSeq(history, Len(history) - MaxHistorySize + 1, Len(history))
    ELSE history

\* the rules of check_metric (lines 177-180) that fire, in the order of the list
Firing(metric, value) ==
    SelectSeq([r \in RuleIds |-> r], LAMBDA r : Matches(metric, r) /\ Fires(r, value))

\* _handle_alert (lines 187-197) for the alerts of the rules rs, one after the
\* other: the active map and the history afterwards
RECURSIVE AfterAlerts(_, _, _, _, _, _)
AfterAlerts(active, history, rs, value, labels, n) ==
    IF rs = <<>> THEN [active |-> active, history |-> history]
    ELSE LET alert == NewAlert(Head(rs), value, labels, n + 1)
             key == AlertKey(alert.name, alert.labels)
         IN AfterAlerts([k \in DOMAIN active \cup {key} |->
                        IF k = key THEN alert ELSE active[k]],
                    Truncated(Append(history, alert)),
                    Tail(rs), value, labels, n + 1)

AMEvent(op, name, labels) == [op |-> op, name |-> name, labels |-> labels]

\* AlertManager.__init__ (lines 85-92); last_fired = 0.0 (line 57)
InitAM ==
    /\ rules = [r \in RuleIds |-> 0]
    /\ active_alerts = <<>>
    /\ alert_history = <<>>
    /\ am_now = Epoch
    /\ am_fired = 0
    /\ am_ops = 0
    /\ am_ev = AMEvent("init", <<>>, <<>>)

\* check_metric (lines 171-185)
CheckMetric(metric, value, labels) ==
    LET rs == Firing(metric, value)
        after == AfterAlerts(active_alerts, alert_history, rs, value, labels, am_fired)
    IN /\ rules' = [r \in RuleIds |->
                      IF \E i \in 1..Len(rs) : rs[i] = r THEN am_now ELSE rules[r]]
       /\ active_alerts' = after.active
       /\ alert_history' = after.history
       /\ am_fired' = am_fired + Len(rs)
       /\ am_ev' = AMEvent("check_metric", metric, labels)
       /\ UNCHANGED am_now

\* resolve_alert (lines 250-260)
ResolveAlertByName(name, labels) ==
    /\ active_alerts' =
          [k \in {j \in DOMAIN active_alerts : j[1] # name} |-> active_alerts[k]]
    /\ am_ev' = AMEvent("resolve_alert", name, labels)
    /\ UNCHANGED <<rules, alert_history, am_now, am_fired>>
ResolveAlert(name, labels) ==
    /\ active_alerts' =
          [k \in DOMAIN active_alerts \ {AlertKey(name, labels)} |-> active_alerts[k]]
    /\ am_ev' = AMEvent("resolve_alert", name, labels)
    /\ UNCHANGED <<rules, alert_history, am_now, am_fired>>

\* POST /alerts/{alert_name}/resolve (main.py, lines 256-261): no labels are
\* passed
ResolveEndpoint(name) ==
    /\ active_alerts' =
          [k \in DOMAIN active_alerts \ {AlertKey(name, <<>>)} |-> active_alerts[k]]
    /\ am_ev' = AMEvent("resolve_endpoint", name, <<>>)
    /\ UNCHANGED <<rules, alert_history, am_now, am_fired>>

\* time passes
AdvanceAM(d) ==
    /\ am_now' = am_now + d
    /\ am_ev' = AMEvent("advance", <<>>, <<>>)
    /\ UNCHANGED <<rules, active_alerts, alert_history, am_fired>>

\* one more of the MaxAlertOps operations on the manager
Counted == am_ops < MaxAlertOps /\ am_ops' = am_ops + 1

NextAM ==
    \/ \E m \in Metrics, v \in MetricValues, l \in Labels :
          Counted /\ CheckMetric(m, v, l) /\ UNCHANGED notAM
    \/ \E n \in RuleNames, l \in Labels :
          Counted /\ ResolveAlert(n, l) /\ UNCHANGED notAM
    \/ \E n \in RuleNames : Counted /\ ResolveEndpoint(n) /\ UNCHANGED notAM
    \/ \E d \in AMSteps : Counted /\ AdvanceAM(d) /\ UNCHANGED notAM

\* a monitor that reports a GPU memory of 96 percent every five minutes,
\* until MaxFired alerts have fired
Poll ==
    /\ am_ev.op # "check_metric"
    /\ am_fired < MaxFired
    /\ CheckMetric(<<"gpu", "memory">>, 96, <<>>)
    /\ UNCHANGED am_ops
Sleep ==
    /\ am_ev.op = "check_metric"
    /\ AdvanceAM(300)
    /\ UNCHANGED am_ops

NextMonitor ==
    \/ Poll /\ UNCHANGED notAM
    \/ Sleep /\ UNCHANGED notAM

(***************************************************************************)
(* Specifications.  The breaker, the queue, the limiter and the rule share *)
(* no state, so each is checked with the other ones at rest; the service   *)
(* runs with its own limiter.                                              *)
(***************************************************************************)
\* a breaker nobody calls
RestCB ==
    /\ config = [failure_threshold |-> 1, recovery_timeout |-> 1,
                 success_threshold |-> 1, timeout |-> 1]
    /\ state = "closed"
    /\ failure_count = 0
    /\ success_count = 0
    /\ last_failure_time = 0
    /\ request_count = 0
    /\ now = StartTime
    /\ cpc = [c \in Callers |-> "idle"]
    /\ cstart = [c \in Callers |-> 0]
    /\ invoked = 0
    /\ attempts = 0
    /\ ev = [op |-> "init", c |-> 0, from |-> "closed"]
    /\ streak = 0
    /\ opened_at = 0

\* a queue nobody uses
RestQ ==
    /\ max_size = 1
    /\ max_workers = MaxWorkersField(0)
    /\ sem = DefaultPermits
    /\ queue = <<>>
    /\ unfinished = 0
    /\ processing = 0
    /\ processed = 0
    /\ dropped = 0
    /\ shutdown_flag = FALSE
    /\ nworkers = 0
    /\ wpc = [w \in Workers |-> "none"]
    /\ witem = [w \in Workers |-> 0]
    /\ wcancel = {}
    /\ spc = "idle"
    /\ wgather = 0
    /\ puts = 0
    /\ accepted = {}
    /\ handled = [i \in Items |-> 0]
    /\ done = [i \in Items |-> 0]
    /\ raised = {}
    /\ qev = [op |-> "init", who |-> 0, item |-> 0]

\* a limiter nobody asks
RestRL ==
    /\ requests_per_minute = 60
    /\ burst_size = BurstSize(60, 0)
    /\ buckets = <<>>
    /\ last_cleanup = Epoch
    /\ rl_now = Epoch
    /\ rl_calls = [k \in Keys |-> 0]
    /\ rl_advances = 0
    /\ rl_ev = NoEvent
    /\ admitted = [k \in Keys |-> <<>>]
    /\ created = [k \in Keys |-> -1]
    /\ run = [k \in Keys |-> 0]

\* a rule nobody checks
RestAL ==
    /\ threshold = 95
    /\ cooldown_seconds = 300
    /\ last_fired = 0
    /\ al_now = Epoch
    /\ al_advances = 0
    /\ checked = <<>>

\* a service nobody calls
RestSV ==
    /\ enable_auth = FALSE
    /\ circuit_breakers = <<>>
    /\ request_queues = <<>>
    /\ inflight = [n \in Names |-> 0]
    /\ pending = {}
    /\ engine_calls = 0
    /\ sv_ops = 0
    /\ sv_ev = SEvent("init", "", NoResponse)

\* a manager nobody uses
RestAM ==
    /\ rules = [r \in RuleIds |-> 0]
    /\ active_alerts = <<>>
    /\ alert_history = <<>>
    /\ am_now = Epoch
    /\ am_fired = 0
    /\ am_ops = 0
    /\ am_ev = AMEvent("init", <<>>, <<>>)

InitSpecCB == InitCB /\ RestQ /\ RestRL /\ RestAL /\ RestSV /\ RestAM

SpecCB == InitSpecCB /\ [][NextCB]_vars

InitSpecQ == InitQ /\ RestCB /\ RestRL /\ RestAL /\ RestSV /\ RestAM

SpecQ == InitSpecQ /\ [][NextQ]_vars

InitSpecRL == InitRL /\ RestCB /\ RestQ /\ RestAL /\ RestSV /\ RestAM

SpecRL == InitSpecRL /\ [][NextRL]_vars

InitSpecAL == InitAL /\ RestCB /\ RestQ /\ RestRL /\ RestSV /\ RestAM

SpecAL == InitSpecAL /\ [][NextAL]_vars

\* AuthMiddleware.__init__ (auth.py, line 164): RateLimiter(settings.rate_limit_rpm)
InitLimiterSV ==
    /\ requests_per_minute = RateLimitRpm
    /\ burst_size = BurstSize(RateLimitRpm, 0)
    /\ buckets = <<>>
    /\ last_cleanup = Epoch
    /\ rl_now = Epoch
    /\ rl_calls = [k \in Keys |-> 0]
    /\ rl_advances = 0
    /\ rl_ev = NoEvent
    /\ admitted = [k \in Keys |-> <<>>]
    /\ created = [k \in Keys |-> -1]
    /\ run = [k \in Keys |-> 0]

InitSpecSV == InitSV /\ InitLimiterSV /\ RestCB /\ RestQ /\ RestAL /\ RestAM

SpecSV == InitSpecSV /\ [][NextSV]_vars

InitSpecAM == InitAM /\ RestCB /\ RestQ /\ RestRL /\ RestAL /\ RestSV

SpecAM == InitSpecAM /\ [][NextAM]_vars

SpecMonitor == InitSpecAM /\ [][NextMonitor]_vars

\* Calls keep being attempted, every admitted call returns and time keeps
\* advancing: the callers' tasks and the wrapped operations are scheduled by
\* the event loop, and the clock is the wall clock.
FairnessCB ==
    /\ WF_vars(\E c \in Callers : CallStart(c) /\ UNCHANGED notCB)
    /\ WF_vars(\E c \in Callers : CallReturn(c) /\ UNCHANGED notCB)
    /\ WF_vars(TickRecovering /\ UNCHANGED notCB)

\* the breaker opens at the first failure, so that it is open when the
\* dependency recovers whatever the number of calls that failed
InitSpecRecovery == InitSpecCB /\ config.failure_threshold = 1

FairSpecCB == InitSpecRecovery /\ [][NextRecovery]_vars /\ FairnessCB

\* The event loop runs every task that is ready (the workers, and shutdown()
\* once it has been called and woken), timers expire, and handlers terminate;
\* put, start_workers and shutdown are called or not.
FairnessQ ==
    /\ \A w \in Workers :
        /\ WF_vars(WorkerResume(w) /\ UNCHANGED notQ)
        /\ WF_vars(WorkerGet(w) /\ UNCHANGED notQ)
        /\ WF_vars(WorkerTimeout(w) /\ UNCHANGED notQ)
        /\ WF_vars((HandlerReturn(w) \/ HandlerRaise(w)) /\ UNCHANGED notQ)
        /\ WF_vars(WorkerCancelled(w) /\ UNCHANGED notQ)
    /\ WF_vars(ShutdownCancel /\ UNCHANGED notQ)
    /\ WF_vars(ShutdownDone /\ UNCHANGED notQ)

FairSpecQ == SpecQ /\ FairnessQ

(***************************************************************************)
(* Claims about the CircuitBreaker, checked under SpecCB.                  *)
(***************************************************************************)

\* C1: counting from a Closed breaker with failure_count = 0, the breaker is
\* still Closed after fewer than failure_threshold consecutive recorded
\* failures and Open once failure_threshold of them have been recorded.
C1_ThresholdFailuresOpen ==
    /\ (streak >= 0 /\ streak < config.failure_threshold) => state = "closed"
    /\ streak >= config.failure_threshold => state = "open"

C1_Witness ==
    /\ config.failure_threshold = 2
    /\ streak = 2
    /\ state = "open"
    /\ ev.op = "failure"

\* C2: a call made while the breaker is Open and now - last_failure_time <
\* recovery_timeout is rejected, the wrapped operation is not invoked, and
\* state, failure_count, success_count, request_count and last_failure_time
\* are left as they were.
C2_OpenRejects ==
    [][\A c \in Callers :
         (CallStart(c) /\ state = "open"
            /\ now - last_failure_time < config.recovery_timeout)
         => /\ ev'.op = "rejected"
            /\ cpc'[c] = "idle"
            /\ invoked' = invoked
            /\ state' = state
            /\ failure_count' = failure_count
            /\ success_count' = success_count
            /\ request_count' = request_count
            /\ last_failure_time' = last_failure_time]_vars

C2_Witness ==
    /\ ev.op = "rejected"
    /\ state = "open"
    /\ now - last_failure_time < config.recovery_timeout
    /\ request_count >= 1

\* C3: a call made on an Open breaker when now - last_failure_time >=
\* recovery_timeout puts the breaker in HalfOpen with success_count = 0 and is
\* passed to the wrapped operation; a call made in Closed or HalfOpen is passed
\* to the wrapped operation and leaves the state as it is.
C3_OpenToHalfOpen ==
    [][\A c \in Callers :
         /\ (CallStart(c) /\ state = "open"
               /\ now - last_failure_time >= config.recovery_timeout)
            => /\ state' = "half_open"
               /\ success_count' = 0
               /\ cpc'[c] = "running"
               /\ invoked' = invoked + 1
         /\ (CallStart(c) /\ state \in {"closed", "half_open"})
            => /\ state' = state
               /\ cpc'[c] = "running"
               /\ invoked' = invoked + 1]_vars

C3_Witness ==
    /\ ev.op = "admitted"
    /\ ev.from = "open"
    /\ state = "half_open"
    /\ now - last_failure_time = config.recovery_timeout
    /\ cpc[ev.c] = "running"

\* C4: a failure (an exception or a timeout) recorded while the breaker is
\* HalfOpen puts it back to Open, whatever success_count and failure_count are.
C4_HalfOpenFailureReopens ==
    [][\A c \in Callers :
         ((CallRaise(c) \/ CallTimeout(c)) /\ state = "half_open")
         => state' = "open"]_vars

C4_Witness ==
    /\ ev.op = "failure"
    /\ ev.from = "half_open"
    /\ state = "open"
    /\ success_count >= 1

\* C5: a success recorded in HalfOpen adds one to success_count; the breaker
\* becomes Closed, with failure_count = 0, exactly when success_count reaches
\* success_threshold, and stays HalfOpen before that.
C5_HalfOpenSuccessCloses ==
    [][\A c \in Callers :
         (CallReturn(c) /\ state = "half_open")
         => /\ success_count' = success_count + 1
            /\ state' \in {"closed", "half_open"}
            /\ state' = "closed" <=> success_count' = config.success_threshold
            /\ state' = "closed" => failure_count' = 0]_vars

C5_Witness ==
    /\ ev.op = "success"
    /\ ev.from = "half_open"
    /\ state = "closed"
    /\ config.success_threshold = 2
    /\ success_count = 2
    /\ failure_count = 0

C5_WitnessBefore ==
    /\ ev.op = "success"
    /\ ev.from = "half_open"
    /\ state = "half_open"
    /\ success_count = 1

\* C18: a wrapped call that runs into the per-call timeout is ended, the error
\* goes to the caller, and the timeout is recorded like any other failure
\* (failure_count + 1, last_failure_time = now, Closed opens at the threshold,
\* HalfOpen reopens), whatever state the breaker is in by then.
C18_TimeoutRecordedAsFailure ==
    [][\A c \in Callers :
         CallTimeout(c) =>
            /\ failure_count' = failure_count + 1
            /\ last_failure_time' = now
            /\ state' = IF state = "closed"
                        THEN IF failure_count + 1 >= config.failure_threshold
                             THEN "open" ELSE "closed"
                        ELSE "open"
            /\ success_count' = success_count
            /\ cpc'[c] = "idle"
            /\ ev'.op = "timeout"]_vars

\* a probe call admitted in HalfOpen timed out and reopened the breaker
C18_Witness ==
    /\ ev.op = "timeout"
    /\ ev.from = "half_open"
    /\ state = "open"
    /\ last_failure_time = now
    /\ opened_at = now

\* C19: once the breaker has opened, a call attempted at least recovery_timeout
\* after the failure that opened it is admitted (HalfOpen), also when calls
\* admitted before the opening fail while the breaker is Open.
C19_AdmittedAfterRecoveryWindow ==
    [][\A c \in Callers :
         (/\ CallStart(c)
          /\ state = "open"
          /\ now - opened_at >= config.recovery_timeout)
            => (state' = "half_open" /\ cpc'[c] = "running")]_vars

\* C20: right after success_threshold successes in HalfOpen have closed the
\* breaker, failure_count = 0 and success_count = 0.
C20_CountersResetOnClose ==
    [][\A c \in Callers :
         (CallReturn(c) /\ state = "half_open" /\ state' = "closed")
            => (failure_count' = 0 /\ success_count' = 0)]_vars

\* C20, as the code has it: right after success_threshold successes in HalfOpen
\* have closed the breaker, failure_count = 0, and success_count is left at
\* success_threshold.
C20_FailureCountResetOnClose ==
    [][\A c \in Callers :
         (CallReturn(c) /\ state = "half_open" /\ state' = "closed")
            => (failure_count' = 0 /\ success_count' = config.success_threshold)]_vars

\* the success that closed the breaker left success_count at the threshold
\* while the breaker is Closed with failure_count = 0
C20_Witness ==
    /\ ev.op = "success"
    /\ ev.from = "half_open"
    /\ state = "closed"
    /\ failure_count = 0
    /\ success_count > 0
    /\ success_count = config.success_threshold

\* C21: a success recorded while Closed sets failure_count to
\* max(0, failure_count - 1) and keeps the breaker Closed; hence with
\* failure_threshold >= 2 the success that follows a single failure takes the
\* count back to zero, and a history that alternates failure, success, ...
\* (its run of failures since the count was zero is never longer than one)
\* leaves the breaker Closed.
C21_FailureDecay ==
    /\ [][\A c \in Callers :
            (CallReturn(c) /\ state = "closed") =>
                /\ failure_count' = Max(0, failure_count - 1)
                /\ state' = "closed"
                /\ (streak = 1 /\ config.failure_threshold >= 2) => streak' = 0]_vars
    /\ []((config.failure_threshold >= 2 /\ streak \in {0, 1})
             => (state = "closed" /\ failure_count = streak))

\* a failure was recorded and the success after it took the count back to zero
C21_Witness ==
    /\ config.failure_threshold = 2
    /\ ev.op = "success"
    /\ ev.from = "closed"
    /\ state = "closed"
    /\ last_failure_time = now
    /\ failure_count = 0
    /\ streak = 0
    /\ request_count >= 2

\* C22: under any interleaving of concurrent calls, request_count is the
\* number of calls admitted to the wrapped operation (a rejected call is not
\* counted), every recorded failure adds exactly one to failure_count, and
\* request_count never decreases, also when an admitted call is cancelled
\* before it completes.
C22_CountersConsistent ==
    /\ [](request_count = invoked)
    /\ [][/\ request_count' >= request_count
          /\ \A c \in Callers :
                /\ (CallRaise(c) \/ CallTimeout(c))
                      => failure_count' = failure_count + 1
                /\ (CallStart(c) /\ ev'.op = "rejected")
                      => request_count' = request_count
                /\ (CallStart(c) /\ ev'.op = "admitted")
                      => request_count' = request_count + 1
                /\ CallCancel(c) => request_count' = request_count]_vars

\* one of two calls in flight was cancelled, the other one is still running,
\* and both stay counted
C22_Witness ==
    /\ ev.op = "cancelled"
    /\ \E c \in Callers : cpc[c] = "running"
    /\ request_count = 2
    /\ invoked = 2

(***************************************************************************)
(* Claims about the RequestQueue, checked under SpecQ and FairSpecQ.       *)
(***************************************************************************)
Dequeued == {i \in Items : handled[i] > 0}
PermitsHeld == Cardinality({w \in Workers : wpc[w] \in {"get", "handling"}})

\* C6: put on a queue whose size is >= max_size fails at once, adds exactly
\* one to dropped and leaves the queued items as they are; put on a queue
\* whose size is < max_size enqueues the item at once and leaves dropped as
\* it is.
C6_PutFullOrEnqueue ==
    [][\A p \in 0..MaxPriority :
         Put(p) =>
           IF Len(queue) >= max_size
             THEN /\ qev'.op = "put_full"
                  /\ dropped' = dropped + 1
                  /\ queue' = queue
                  /\ accepted' = accepted
             ELSE /\ qev'.op = "put"
                  /\ dropped' = dropped
                  /\ queue' = Append(queue, [priority |-> p, item |-> puts + 1])
                  /\ accepted' = accepted \cup {puts + 1}]_vars

C6_Witness ==
    /\ qev.op = "put_full"
    /\ max_size >= 1
    /\ Len(queue) = max_size
    /\ dropped = 1
    /\ qev.item \notin accepted

\* C7: the queue never holds more than max_size items, each put either was
\* accepted or was counted in dropped, and as long as no item has been
\* dequeued, of n puts exactly min(n, max_size) were accepted and the others
\* dropped.
C7_SizeNeverExceedsCapacity ==
    /\ Len(queue) <= max_size
    /\ Cardinality(accepted) + dropped = puts
    /\ Dequeued = {} =>
         /\ Cardinality(accepted) = Min(puts, max_size)
         /\ dropped = puts - Min(puts, max_size)

C7_Witness ==
    /\ max_size = 2
    /\ puts = 3
    /\ Dequeued = {}
    /\ Cardinality(accepted) = 2
    /\ dropped = 1
    /\ qev.op = "put_full"

\* C8: once workers have been started, every accepted item is eventually
\* passed to the handler (or the queue is being shut down), whether the
\* queue was made with the default concurrency limit or with an explicit
\* max_workers.
C8_AcceptedEventuallyHandled ==
    \A i \in Items :
        (i \in accepted /\ nworkers > 0) ~> (handled[i] > 0 \/ shutdown_flag)

\* the same for the queues made with the default concurrency limit only
C8_DefaultLimitEventuallyHandled ==
    \A i \in Items :
        (i \in accepted /\ nworkers > 0 /\ max_workers.kind = "semaphore")
            ~> (handled[i] > 0 \/ shutdown_flag)

\* C9: no item is passed to the handler more than once, no two workers
\* handle the same item, and an item that was dequeued is marked done exactly
\* once, when its worker has left the handler.
C9_ExactlyOnce ==
    /\ \A i \in Items :
         /\ handled[i] <= 1
         /\ handled[i] > 0 => i \in accepted
         /\ done[i] = IF handled[i] = 1 /\ (\A w \in Workers : witem[w] # i)
                        THEN 1 ELSE 0
    /\ \A v, w \in Workers : (v # w /\ witem[v] # 0) => witem[v] # witem[w]
    /\ \A w \in Workers : (wpc[w] = "handling") <=> (witem[w] # 0)
    /\ unfinished = Cardinality({i \in accepted : done[i] = 0})

C9_Witness ==
    /\ wpc[1] = "handling"
    /\ wpc[2] = "handling"
    /\ \E i \in Items : done[i] = 1

\* C10: when the handler raises for an item, the item is marked done, the
\* in-flight count goes down by one, the permit is given back, processed is
\* not increased, the queued items stay queued, the other workers stay where
\* they are, and the worker goes on with the loop: it waits for the next
\* item, unless _shutdown is set, in which case it leaves the loop as it does
\* after any item.
C10_HandlerFailureIsolated ==
    [][\A w \in Workers :
         HandlerRaise(w) =>
           /\ wpc'[w] = IF shutdown_flag THEN "exited" ELSE "get"
           /\ done'[witem[w]] = done[witem[w]] + 1
           /\ unfinished' = unfinished - 1
           /\ processing' = processing - 1
           /\ sem' + PermitsHeld' = DefaultPermits
           /\ processed' = processed
           /\ queue' = queue
           /\ \A v \in Workers \ {w} : wpc'[v] = wpc[v]]_vars

C10_Witness ==
    /\ nworkers = 1
    /\ \E i \in raised : \E j \in Items :
         /\ j > i
         /\ done[i] = 1
         /\ handled[j] = 1
    /\ processed = 0

\* C11: once shutdown() has begun on a queue (made with the default
\* concurrency limit) all of whose started workers are running, waiting for
\* an item or handling one, it eventually returns.
C11_ShutdownEventuallyReturns ==
    (/\ shutdown_flag
     /\ max_workers.kind = "semaphore"
     /\ nworkers > 0
     /\ \A w \in 1..nworkers : wpc[w] \in {"get", "handling"})
        ~> (spc = "done")

\* C12: once shutdown() has begun, no put adds an item to the queue.
C12_NoPutAfterShutdown ==
    [][\A p \in 0..MaxPriority :
         (Put(p) /\ shutdown_flag) => (queue' = queue /\ accepted' = accepted)]_vars

(***************************************************************************)
(* Claims about the RateLimiter, checked under SpecRL.                     *)
(***************************************************************************)
\* the time one token takes to refill has passed between the instants t and u
OneTokenLater(t, u) == (u - t) * requests_per_minute = TokenUnit

\* C13: is_allowed first refills the bucket of the key (a bucket the call
\* creates starts at capacity) to min(capacity, tokens + elapsed * rate) and
\* sets last_refill to now whatever the outcome; it returns True and takes
\* exactly one token iff the refilled balance is at least one token, otherwise
\* it returns False and leaves the refilled balance as it is.  Hence burst_size
\* back-to-back calls on a new key are allowed, the next one is denied, and one
\* more is allowed once the time to refill one token has passed (60 per minute
\* and burst 10: ten allowed, the 11th denied, the 12th allowed a second later).
C13_IsAllowedDecisionRule ==
    /\ [][\A key \in Keys :
            IsAllowed(key) =>
                LET before == IF rl_ev'.fresh THEN Capacity ELSE buckets[key].tokens
                    elapsed == IF rl_ev'.fresh THEN 0
                               ELSE rl_now - buckets[key].last_refill
                    refilled == Min(Capacity, before + elapsed * requests_per_minute)
                IN /\ buckets'[key].last_refill = rl_now
                   /\ rl_ev'.result = (refilled >= TokenUnit)
                   /\ buckets'[key].tokens =
                        IF refilled >= TokenUnit THEN refilled - TokenUnit
                        ELSE refilled]_vars
    /\ [](\A key \in Keys :
            /\ (rl_ev.key = key /\ rl_ev.at = created[key])
                   => (rl_ev.result = (run[key] <= burst_size))
            /\ (/\ rl_ev.key = key
                /\ run[key] = burst_size + 1
                /\ buckets[key].requests = burst_size + 2
                /\ OneTokenLater(created[key], rl_ev.at))
                   => rl_ev.result)

\* 60 per minute and burst 10: eleven back-to-back calls on a new key, the
\* first ten allowed, and the twelfth call, one second later, allowed
C13_Witness ==
    /\ requests_per_minute = 60
    /\ burst_size = 10
    /\ rl_ev.key = "key-a"
    /\ run["key-a"] = 11
    /\ buckets["key-a"].requests = 12
    /\ rl_ev.at = created["key-a"] + 1
    /\ rl_ev.result
    /\ Len(admitted["key-a"]) = 11
    /\ admitted["key-a"][10] = created["key-a"]

\* C14: every bucket holds at least zero tokens and at most burst_size tokens,
\* whatever is_allowed calls, get_stats calls, sweeps and time advances came
\* before; a call that finds the last token gone is denied.
C14_BalanceWithinCapacity ==
    \A key \in DOMAIN buckets :
        /\ buckets[key].tokens >= 0
        /\ buckets[key].tokens <= Capacity

\* a call took the last token of a bucket, and the next call at the same instant
\* was denied and left the balance at zero
C14_Witness ==
    \E key \in DOMAIN buckets :
        /\ rl_ev.key = key
        /\ ~rl_ev.result
        /\ buckets[key].tokens = 0
        /\ admitted[key] # <<>>
        /\ admitted[key][Len(admitted[key])] = rl_ev.at

\* C15: for every key, the is_allowed calls that return True within a window
\* shorter than the time one token takes to refill number at most burst_size.
C15_BurstBound ==
    \A key \in Keys :
        \A i \in 1..Len(admitted[key]) :
            Cardinality({j \in i..Len(admitted[key]) :
                (admitted[key][j] - admitted[key][i]) * requests_per_minute
                    < TokenUnit}) <= burst_size

\* burst_size calls allowed at one instant, and the next one exactly when one
\* token has been refilled
C15_Witness ==
    \E key \in Keys :
        /\ Len(admitted[key]) = burst_size + 1
        /\ admitted[key][burst_size] = admitted[key][1]
        /\ OneTokenLater(admitted[key][1], admitted[key][burst_size + 1])

(***************************************************************************)
(* Claims about the AlertRule, checked under SpecAL.                       *)
(***************************************************************************)
\* the checks that returned an Alert, oldest first
Alerts == SelectSeq(checked, LAMBDA c : c.alert)

\* C16: any two alerts a rule emits are at least cooldown_seconds apart,
\* whatever values are checked and however often the condition holds in between.
C16_AlertsCooldownApart ==
    \A i, j \in 1..Len(Alerts) :
        i < j => Alerts[j].at - Alerts[i].at >= cooldown_seconds

\* two alerts exactly cooldown_seconds apart, with a suppressed match in between
C16_Witness ==
    \E i, j, k \in 1..Len(checked) :
        /\ i < j /\ j < k
        /\ checked[i].alert
        /\ checked[j].value > threshold /\ ~checked[j].alert
        /\ checked[k].alert
        /\ checked[k].at - checked[i].at = cooldown_seconds

\* C17: check(value) returns an alert and sets last_fired to now iff the value
\* is above the threshold and now - last_fired >= cooldown_seconds; otherwise it
\* returns nothing and leaves last_fired alone, so a suppressed match does not
\* extend the cooldown.  With cooldown 300 and threshold 95, a 96 that fires is
\* followed by an immediate 97 that does not and by a 97 that fires 301 s later.
C17_CheckFiringRule ==
    /\ [][\A value \in Values :
            Check(value) =>
                LET fires == value > threshold
                             /\ al_now - last_fired >= cooldown_seconds
                IN /\ checked'[Len(checked')].alert = fires
                   /\ last_fired' = IF fires THEN al_now ELSE last_fired]_vars
    /\ [](\A i \in 1..Len(checked) :
            (/\ cooldown_seconds = 300
             /\ threshold = 95
             /\ checked[i].value = 96
             /\ checked[i].alert)
                => /\ (/\ i + 1 <= Len(checked)
                       /\ checked[i + 1].value = 97
                       /\ checked[i + 1].at = checked[i].at)
                          => ~checked[i + 1].alert
                   /\ (/\ i + 2 <= Len(checked)
                       /\ checked[i + 1].value = 97
                       /\ checked[i + 1].at = checked[i].at
                       /\ checked[i + 2].value = 97
                       /\ checked[i + 2].at = checked[i].at + 301)
                          => checked[i + 2].alert)

\* cooldown 300, threshold 95: 96 fired, an immediate 97 did not, and 97 fired
\* again 301 seconds later
C17_Witness ==
    /\ cooldown_seconds = 300
    /\ threshold = 95
    /\ Len(checked) = 3
    /\ checked[1].value = 96 /\ checked[1].alert
    /\ checked[2].value = 97 /\ ~checked[2].alert /\ checked[2].at = checked[1].at
    /\ checked[3].value = 97 /\ checked[3].alert
    /\ checked[3].at = checked[1].at + 301
    /\ last_fired = checked[3].at

(***************************************************************************)
(* Properties of the service and of the ResilienceManager.                 *)
(***************************************************************************)
\* request_count of a named breaker, 0 while the name is not registered
RequestCount(reg, name) ==
    IF name \in DOMAIN reg THEN reg[name].request_count ELSE 0
FailureCount(reg, name) ==
    IF name \in DOMAIN reg THEN reg[name].failure_count ELSE 0

\* C23: every engine generation made for an admitted request runs through
\* CircuitBreaker.call: the step that invokes the engine counts a request on
\* a named breaker, and the step in which the engine raises counts a failure
\* on a named breaker.
C23_EngineCallsBreakerProtected ==
    [][/\ engine_calls' > engine_calls =>
            \E n \in Names :
                RequestCount(circuit_breakers', n) = RequestCount(circuit_breakers, n) + 1
       /\ (sv_ev'.op = "engine_raised" /\ pending' # pending) =>
            \E n \in Names :
                FailureCount(circuit_breakers', n) = FailureCount(circuit_breakers, n) + 1]_vars

\* a call on the named breaker is rejected now
Rejects(name) == BreakerRejects(BreakersAfterGet(name, FALSE, DefaultBreakerConfig)[name])
\* the named queue takes no more items now
IsFull(name) ==
    LET q == QueuesAfterGet(name, DefaultMaxSize, 0)[name]
    IN Len(q.queue) >= q.max_size

\* C24: a denial by the rate limiter is answered with status 429, a call
\* rejected by an open breaker with status 503, a put rejected by a full queue
\* with status 503 and an error type other than the one of the open breaker,
\* and an engine failure in generate with status 500 and an error message.
C24_ErrorOutcomeMapping ==
    [][/\ \A route \in Routes, cred \in Credentials, k \in Keys :
            (RequestChecked(route, cred, k) /\ ~rl_ev'.result) =>
                sv_ev'.status_code = 429
       /\ \A n \in Names :
            (WithCircuitBreaker(n) /\ Rejects(n)) => sv_ev'.status_code = 503
       /\ \A n \in Names :
            (QueueRequest(n) /\ IsFull(n)) =>
                /\ sv_ev'.status_code = 503
                /\ sv_ev'.error_type # CreateErrorResponse("CircuitBreakerError").error_type
       /\ \A r \in pending :
            (EngineRaise(r) /\ r.route = "/v1/generate") =>
                sv_ev'.status_code = 500 /\ sv_ev'.message # ""]_vars

\* C25: the engine is invoked for a request to /v1/generate or /v1/stream only
\* in a step in which authentication succeeded (when it is enabled) and
\* is_allowed, called once for the key of that request, returned true; a
\* request answered 401 or 429 invokes no engine, leaves no request waiting
\* for the engine, and asks the limiter at most once.
C25_AdmissionBeforeEngine ==
    [][/\ engine_calls' > engine_calls =>
            \E route \in Routes, cred \in Credentials, k \in Keys :
                Request(route, cred, k)
       /\ \A route \in Routes, cred \in Credentials, k \in Keys :
            Request(route, cred, k) =>
                /\ engine_calls' > engine_calls =>
                        /\ enable_auth => cred = "valid"
                        /\ rl_calls' = [rl_calls EXCEPT ![k] = @ + 1]
                        /\ rl_ev'.key = k /\ rl_ev'.result
                        /\ engine_calls' = engine_calls + 1
                /\ sv_ev'.status_code \in {401, 429} =>
                        /\ engine_calls' = engine_calls
                        /\ pending' = pending
                        /\ \A j \in Keys : rl_calls'[j] <= rl_calls[j] + 1
                /\ (enable_auth /\ cred # "valid") =>
                        sv_ev'.status_code = 401 /\ rl_calls' = rl_calls
                /\ ((enable_auth => cred = "valid") /\ ~rl_ev'.result) =>
                        sv_ev'.status_code = 429]_vars
\* with authentication enabled, a client was admitted once and is then denied
\* by the limiter
C25_Witness ==
    /\ enable_auth
    /\ sv_ev.op = "request" /\ sv_ev.status_code = 429 /\ ~sv_ev.engine
    /\ engine_calls = 1
    /\ rl_calls[sv_ev.who] = 2
    /\ ~rl_ev.result /\ rl_ev.key = sv_ev.who

C27_FirstCallWins ==
    [][/\ \A n \in Names, a \in BreakerArgs :
            GetCircuitBreaker(n, a[1], a[2]) =>
                IF n \in DOMAIN circuit_breakers
                THEN circuit_breakers' = circuit_breakers
                ELSE /\ DOMAIN circuit_breakers' = DOMAIN circuit_breakers \cup {n}
                     /\ circuit_breakers'[n] =
                            NewBreaker(IF a[1] THEN a[2] ELSE DefaultBreakerConfig)
                     /\ \A m \in DOMAIN circuit_breakers :
                            circuit_breakers'[m] = circuit_breakers[m]
       /\ \A n \in Names, a \in QueueArgs :
            GetRequestQueue(n, a[1], a[2]) =>
                IF n \in DOMAIN request_queues
                THEN request_queues' = request_queues
                ELSE /\ DOMAIN request_queues' = DOMAIN request_queues \cup {n}
                     /\ request_queues'[n] = NewQueue(a[1], a[2])
                     /\ \A m \in DOMAIN request_queues :
                            request_queues'[m] = request_queues[m]
       /\ \A n \in DOMAIN circuit_breakers :
            /\ n \in DOMAIN circuit_breakers'
            /\ circuit_breakers'[n].config = circuit_breakers[n].config
       /\ \A n \in DOMAIN request_queues :
            /\ n \in DOMAIN request_queues'
            /\ request_queues'[n].max_size = request_queues[n].max_size
            /\ request_queues'[n].max_workers = request_queues[n].max_workers]_vars
\* a breaker created with the default configuration has counted a call, and a
\* get passing another configuration has just returned it
C27_Witness ==
    /\ sv_ev.op = "get_circuit_breaker"
    /\ sv_ev.who \in DOMAIN circuit_breakers
    /\ circuit_breakers[sv_ev.who].config = DefaultBreakerConfig
    /\ circuit_breakers[sv_ev.who].request_count = 1
    /\ \A a \in BreakerArgs : a[1] /\ a[2] # DefaultBreakerConfig

\* C28: get_all_stats, with the get_stats of every breaker and queue it
\* calls, returns the current values of the fields and changes no breaker,
\* no queue and no entry of the registry.
C28_StatsAreSnapshots ==
    [][GetAllStats =>
          /\ circuit_breakers' = circuit_breakers
          /\ request_queues' = request_queues
          /\ inflight' = inflight /\ pending' = pending
          /\ DOMAIN sv_ev'.body.circuit_breakers = DOMAIN circuit_breakers
          /\ DOMAIN sv_ev'.body.request_queues = DOMAIN request_queues
          /\ \A n \in DOMAIN circuit_breakers :
                LET st == sv_ev'.body.circuit_breakers[n]
                    b == circuit_breakers[n]
                IN /\ st.name = n /\ st.state = b.state /\ st.config = b.config
                   /\ st.failure_count = b.failure_count
                   /\ st.success_count = b.success_count
                   /\ st.request_count = b.request_count
                   /\ st.last_failure_time = b.last_failure_time
          /\ \A n \in DOMAIN request_queues :
                LET st == sv_ev'.body.request_queues[n]
                    q == request_queues[n]
                IN /\ st.queue_size = Len(q.queue) /\ st.max_size = q.max_size
                   /\ st.processing = q.processing /\ st.processed = q.processed
                   /\ st.dropped = q.dropped]_vars
\* the statistics of a breaker that has counted a call and its failure have
\* just been returned
C28_Witness ==
    /\ sv_ev.op = "get_all_stats"
    /\ \E n \in DOMAIN circuit_breakers :
          /\ circuit_breakers[n].request_count = 1
          /\ circuit_breakers[n].failure_count = 1
          /\ circuit_breakers[n].last_failure_time = rl_now
          /\ sv_ev.body.circuit_breakers[n].request_count = 1
          /\ sv_ev.body.circuit_breakers[n].failure_count = 1

\* C29: a call on one named breaker, from its admission or rejection to its
\* end, leaves every breaker of another name and every queue as it is and
\* registers no other name; is_allowed on one key leaves the bucket of every
\* other key in place with its token balance and its request count.
C29_Isolation ==
    [][/\ \A n \in Names, failed \in BOOLEAN :
            (WithCircuitBreaker(n) \/ BreakerCallEnds(n, failed)) =>
                /\ DOMAIN circuit_breakers' \subseteq DOMAIN circuit_breakers \cup {n}
                /\ \A m \in DOMAIN circuit_breakers \ {n} :
                      m \in DOMAIN circuit_breakers' /\ circuit_breakers'[m] = circuit_breakers[m]
                /\ request_queues' = request_queues
       /\ \A route \in Routes, cred \in Credentials, k \in Keys :
            RequestChecked(route, cred, k) =>
                \A j \in DOMAIN buckets \ {k} :
                    /\ j \in DOMAIN buckets'
                    /\ buckets'[j].tokens = buckets[j].tokens
                    /\ buckets'[j].requests = buckets[j].requests]_vars

(***************************************************************************)
(* The idle buckets of the RateLimiter, checked under SpecRL.              *)
(***************************************************************************)
\* how long the bucket of a key has seen no is_allowed call
Idle(key) == rl_now - buckets[key].last_request

\* C30: no bucket is kept beyond one sweep interval after it has been idle
\* for more than an hour, whether or not requests reach the limiter; and no
\* step removes a bucket whose last request is at most one hour old.
C30_IdleEviction ==
    /\ [](\A k \in DOMAIN buckets : Idle(k) <= IdleLimit + CleanupInterval)
    /\ [][\A k \in DOMAIN buckets :
              Idle(k) <= IdleLimit => k \in DOMAIN buckets']_vars

\* the 'requests' entry of get_stats(key) (lines 136-155)
ReportedRequests(bs, key) == IF key \in DOMAIN bs THEN bs[key].requests ELSE 0

\* C31 as stated: the request count get_stats reports for a key never
\* decreases, whatever the limiter does.
C31_RequestCountMonotonic ==
    [][\A k \in Keys :
          ReportedRequests(buckets', k) >= ReportedRequests(buckets, k)]_vars
\* C31: the request count get_stats reports for a key never decreases while
\* the bucket of the key is kept; it decreases only in a step whose sweep
\* removes that bucket, idle for more than an hour, and then restarts from 0,
\* or from 1 when the sweeping call is on the key itself.
C31_RequestCountMonotonicUntilEvicted ==
    [][\A k \in Keys :
          \/ ReportedRequests(buckets', k) >= ReportedRequests(buckets, k)
          \/ /\ k \in DOMAIN buckets
             /\ CleanupDue
             /\ rl_now - buckets[k].last_request > IdleLimit
             /\ ReportedRequests(buckets', k) =
                    IF rl_ev'.key = k /\ rl_calls'[k] = rl_calls[k] + 1 THEN 1 ELSE 0]_vars
\* the bucket of a key that had made a request was swept and the key has a
\* new bucket with one request
C31_Witness ==
    \E k \in DOMAIN buckets :
        /\ rl_calls[k] = 2
        /\ buckets[k].requests = 1
        /\ created[k] = rl_now /\ rl_now > Epoch + IdleLimit

InHandler == {w \in Workers : wpc[w] = "handling"}

C34_HistoryBound ==
    /\ Len(alert_history) <= MaxHistorySize
    /\ Len(alert_history) = Min(am_fired, MaxHistorySize)
    /\ \A i \in 1..Len(alert_history) :
          alert_history[i].seq = am_fired - Len(alert_history) + i
\* more than 1000 alerts have fired
C34_Witness ==
    /\ am_fired = MaxHistorySize + 2
    /\ Len(alert_history) = MaxHistorySize
    /\ alert_history[1].seq = 3
    /\ alert_history[MaxHistorySize].seq = am_fired

\* C35: resolve_alert(name, labels) removes the active entry of the key of
\* that name and those labels, if there is one, and nothing else: the other
\* active entries, the history and last_fired of every rule stay as they
\* are, and so does everything when the key is not active.
C35_ResolveFrame ==
    [][\A n \in RuleNames, l \in Labels :
          (Counted /\ ResolveAlert(n, l)) =>
              /\ DOMAIN active_alerts' = DOMAIN active_alerts \ {AlertKey(n, l)}
              /\ \A k \in DOMAIN active_alerts' : active_alerts'[k] = active_alerts[k]
              /\ alert_history' = alert_history
              /\ rules' = rules
              /\ am_fired' = am_fired
              /\ AlertKey(n, l) \notin DOMAIN active_alerts =>
                    active_alerts' = active_alerts]_vars
\* two alerts fired with the same labels and one of them has just been
\* resolved
C35_Witness ==
    /\ am_ev.op = "resolve_alert"
    /\ am_ops = 2 /\ am_fired = 2
    /\ Len(alert_history) = 2
    /\ alert_history[1].name = am_ev.name /\ alert_history[1].labels = am_ev.labels
    /\ DOMAIN active_alerts = {AlertKey(alert_history[2].name, alert_history[2].labels)}
    /\ rules[1] = am_now /\ rules[2] = am_now

\* C36: once POST /alerts/{name}/resolve has answered that the alert is
\* resolved, no alert of that name is active, whatever labels it fired with.
C36_ResolvedByName ==
    [][\A n \in RuleNames :
          (Counted /\ ResolveEndpoint(n)) =>
              \A k \in DOMAIN active_alerts' : active_alerts'[k].name # n]_vars

(***************************************************************************)
(* C37.  Transition graph of the breaker.  A step of call() and its        *)
(* bookkeeping that changes the state takes one of closed -> open,         *)
(* open -> half_open, half_open -> open, half_open -> closed; a step from  *)
(* open straight to closed is the operator reset, and no step goes from    *)
(* closed straight to half_open.                                           *)
(***************************************************************************)
CallTransitions ==
    { <<"closed", "open">>, <<"open", "half_open">>,
      <<"half_open", "open">>, <<"half_open", "closed">> }

IsReset == ev'.op = "reset" /\ ev' # ev

C37_TransitionGraph ==
    [][ /\ (state' # state /\ ~IsReset) => <<state, state'>> \in CallTransitions
        /\ (state = "open" /\ state' = "closed") => IsReset
        /\ ~(state = "closed" /\ state' = "half_open") ]_vars

\* the operator has just closed an open breaker, after calls had opened it
C37_Witness == ev.op = "reset" /\ ev.from = "open" /\ state = "closed" /\ request_count > 0

\* a probe has just closed a half-open breaker
C37_WitnessProbe == ev.op = "success" /\ ev.from = "half_open" /\ state = "closed"

(***************************************************************************)
(* C38.  Probes are genuine: a call admitted before the failure that last  *)
(* opened the breaker, whose wrapped operation returns while the breaker   *)
(* is half-open, neither increments success_count nor closes the breaker.  *)
(***************************************************************************)
\* caller c was admitted before the breaker last opened, so not in the
\* half-open period that followed: a call of that period is admitted once
\* recovery_timeout >= 1 has elapsed since a failure recorded at opened_at or
\* later (line 47), at a clock reading greater than opened_at
AdmittedBeforeOpening(c) == cpc[c] = "running" /\ cstart[c] <= opened_at

StaleSuccess(c) ==
    /\ AdmittedBeforeOpening(c)
    /\ state = "half_open"
    /\ ev' = Event("success", c)
    /\ cpc'[c] # "running"

C38_ProbesAreGenuine ==
    [][ \A c \in Callers :
          StaleSuccess(c) => success_count' = success_count /\ state' = "half_open" ]_vars

(***************************************************************************)
(* C39.  State invariants of the breaker, for failure_threshold >= 1 and   *)
(* success_threshold >= 1: both counters are never negative, a closed      *)
(* breaker has fewer than failure_threshold counted failures, and a        *)
(* half-open breaker has fewer than success_threshold counted successes.   *)
(***************************************************************************)
C39_StateInvariants ==
    (config.failure_threshold >= 1 /\ config.success_threshold >= 1) =>
        /\ failure_count >= 0
        /\ success_count >= 0
        /\ state = "closed" => failure_count < config.failure_threshold
        /\ state = "half_open" => success_count < config.success_threshold

\* a half-open breaker one success short of closing, after a probe succeeded
C39_Witness ==
    /\ state = "half_open"
    /\ ev.op = "success"
    /\ success_count = config.success_threshold - 1
    /\ success_count >= 1

\* a closed breaker one failure short of opening, after a call failed
C39_WitnessClosed ==
    /\ state = "closed"
    /\ ev.op \in {"failure", "timeout"}
    /\ failure_count = config.failure_threshold - 1
    /\ failure_count >= 1

(***************************************************************************)
(* C40.  Eventual recovery, under FairSpecCB.  Once every admitted call    *)
(* succeeds, a breaker whose recovery timeout has elapsed and which is     *)
(* still to be called as often as its closing takes becomes closed, and a  *)
(* closed breaker stays closed.                                            *)
(***************************************************************************)
\* the successes a breaker in this state still needs in order to close
Needed ==
    IF state = "closed" THEN 0
    ELSE IF state = "half_open" THEN config.success_threshold - success_count
    ELSE config.success_threshold

Recovering ==
    /\ ~Failing
    /\ InTime(now)
    /\ state = "open" => RecoveryElapsed
    /\ attempts + Needed <= MaxCalls

C40_EventualRecovery ==
    /\ Recovering ~> state = "closed"
    /\ [][ (~Failing /\ state = "closed") => state' = "closed" ]_vars

\* a breaker that was open when the dependency recovered has been closed by
\* its probes
C40_Witness ==
    /\ ~Failing
    /\ state = "closed"
    /\ ev.op = "success"
    /\ ev.from = "half_open"
    /\ opened_at > 0
====
